---- MODULE Spec2Model ----
(***************************************************************************)
(* Trait inference of the reflect crate (src/src/trait_inference.rs): the  *)
(* type equality sets (TypeEqualitySets), the synthesis of the most        *)
(* concrete type of an equality set, and the operations that feed them.    *)
(*                                                                         *)
(* Handles (TypeEqualitySetRef) index the backing list `sets`; the list is *)
(* a TLA+ sequence, so handle h of the model is handle h-1 of the code.    *)
(***************************************************************************)
EXTENDS Integers, Sequences, FiniteSets, TLC

(***************************************************************************)
(* The type grammar (TypeNode).  Every type is a record of one shape:      *)
(*   k        the variant                                                  *)
(*   id       the identity of a TypeParam (or of a Lifetime argument)      *)
(*   lifetime the lifetime of a reference, NoLifetime for None             *)
(*   global   the leading :: of a path                                     *)
(*   path     the segments of a path, each [ident, ak, args]               *)
(*   args     the elements of a tuple, the payload of a reference, the     *)
(*            bounds of a trait object                                     *)
(***************************************************************************)
NoLifetime == -1

Node(k, id, lifetime, global, path, args) ==
    [k |-> k, id |-> id, lifetime |-> lifetime, global |-> global,
     path |-> path, args |-> args]

Infer == Node("Infer", 0, NoLifetime, FALSE, <<>>, <<>>)

PrimitiveStr == Node("PrimitiveStr", 0, NoLifetime, FALSE, <<>>, <<>>)

TypeParam(i) == Node("TypeParam", i, NoLifetime, FALSE, <<>>, <<>>)

Tuple(types) == Node("Tuple", 0, NoLifetime, FALSE, <<>>, types)

Reference(inner) == Node("Reference", 0, NoLifetime, FALSE, <<>>, <<inner>>)

ReferenceMut(inner) == Node("ReferenceMut", 0, NoLifetime, FALSE, <<>>, <<inner>>)

\* GenericArgument::Lifetime, an argument of a path segment that is no type
LifetimeArg(i) == Node("Lifetime", i, NoLifetime, FALSE, <<>>, <<>>)

\* PathArguments: ak is "None", "AngleBracketed" or "Parenthesized"
Segment(ident, ak, args) == [ident |-> ident, ak |-> ak, args |-> args]

Path(global, segments) == Node("Path", 0, NoLifetime, global, segments, <<>>)

\* TypeParamBound::Trait(TraitBound { path, .. }): the path of the bound
TraitBound(global, segments) == Node("TraitBound", 0, NoLifetime, global, segments, <<>>)

TraitObject(bounds) == Node("TraitObject", 0, NoLifetime, FALSE, <<>>, bounds)

\* a path of one segment: Name or Name<args>
Simple(ident) == Path(FALSE, <<Segment(ident, "None", <<>>)>>)

Generic(ident, args) == Path(FALSE, <<Segment(ident, "AngleBracketed", args)>>)

LastSegment(p) == p.path[Len(p.path)]

(***************************************************************************)
(* The types the calls are drawn from: one small family per run.           *)
(***************************************************************************)
T == TypeParam(0)

U == TypeParam(1)

DynClone == TraitObject(<<TraitBound(FALSE, <<Segment("Clone", "None", <<>>)>>)>>)

DynInto(ty) == TraitObject(<<TraitBound(FALSE, <<Segment("Into", "AngleBracketed", <<ty>>)>>)>>)

DynTwo == TraitObject(<<TraitBound(FALSE, <<Segment("Clone", "None", <<>>)>>),
                        TraitBound(FALSE, <<Segment("Send", "None", <<>>)>>)>>)

Families ==
    { {T, U, Reference(T), ReferenceMut(U), ReferenceMut(Reference(T))},
      {T, U, Generic("Wrapper", <<T>>), Generic("Wrapper", <<U>>), PrimitiveStr},
      {T, Generic("Result", <<T, U>>), Generic("Result", <<U, T>>),
          Generic("MyResult", <<T>>), Simple("String")},
      {T, U, DynClone, DynInto(T), DynInto(U)},
      {T, U, Tuple(<<T, U>>), Tuple(<<U, T>>), Reference(U)},
      {T, DynTwo, DynClone, Tuple(<<T>>), Tuple(<<T, U>>)},
      {T, Generic("Cow", <<LifetimeArg(1), T>>), Generic("Cow", <<LifetimeArg(1), U>>),
          Path(FALSE, <<Segment("Fn", "Parenthesized", <<>>)>>), Simple("String")},
      {T, Tuple(<<PrimitiveStr>>), PrimitiveStr} }

\* the families of the passes that keep a log of their calls
SmallFamilies ==
    { {T, Generic("Wrapper", <<T>>)},
      {T, U, Generic("Wrapper", <<U>>)},
      {T, Reference(T), Tuple(<<T>>)} }

(***************************************************************************)
(* The solver state that insert_as_equal_to works on, as one value:        *)
(*   set_map      TypeEqualitySets.set_map, a function from the types      *)
(*                observed so far to handles                               *)
(*   sets         TypeEqualitySets.sets, the backing list                  *)
(*   constraints  ConstraintSet.set                                        *)
(*   panic        "none", or the panic that unwound the call               *)
(***************************************************************************)
EmptySolver ==
    [set_map |-> <<>>, sets |-> <<>>, constraints |-> {}, panic |-> "none"]

Panic(st, what) == IF st.panic = "none" THEN [st EXCEPT !.panic = what] ELSE st

\* GenericConstraint::Type(PredicateType { lifetimes: Vec::new(), bounded_ty, bounds })
PredicateType(bounded_ty, bounds) ==
    [kind |-> "Type", lifetimes |-> <<>>, bounded_ty |-> bounded_ty, bounds |-> bounds]

\* set_map.insert(ty, set_ref)
MapInsert(m, ty, set_ref) ==
    [t \in (DOMAIN m) \cup {ty} |-> IF t = ty THEN set_ref ELSE m[t]]

\* new_set: a fresh set holding ty alone, and ty mapped to it
new_set(st, ty) ==
    [st EXCEPT !.sets = Append(st.sets, {ty}),
               !.set_map = MapInsert(st.set_map, ty, Len(st.sets) + 1)]

\* A faulty variant: a merge that forgets to re-point the members of the absorbed
\* set
RecordEqualityNoRepoint(st, ty1, ty2) ==
    LET m == st.set_map
    IN  IF ty1 \in DOMAIN m /\ ty2 \in DOMAIN m
        THEN [st EXCEPT !.sets = [[st.sets EXCEPT ![m[ty1]] = st.sets[m[ty1]] \cup st.sets[m[ty2]]]
                                      EXCEPT ![m[ty2]] = {}]]
        ELSE IF ty1 \in DOMAIN m
        THEN [st EXCEPT !.sets = [st.sets EXCEPT ![m[ty1]] = @ \cup {ty2}],
                        !.set_map = MapInsert(m, ty2, m[ty1])]
        ELSE IF ty2 \in DOMAIN m
        THEN [st EXCEPT !.sets = [st.sets EXCEPT ![m[ty2]] = @ \cup {ty1}],
                        !.set_map = MapInsert(m, ty1, m[ty2])]
        ELSE [st EXCEPT !.sets = Append(st.sets, {ty2, ty1}),
                        !.set_map = MapInsert(MapInsert(m, ty2, Len(st.sets) + 1),
                                              ty1, Len(st.sets) + 1)]

\* lines 195-224: the outer equality of ty1 and ty2 recorded in the partition
RecordEquality(st, ty1, ty2) ==
    LET m == st.set_map
    IN  IF ty1 \in DOMAIN m /\ ty2 \in DOMAIN m
        THEN \* (Some(&set_ref1), Some(&set_ref2))
             LET set_ref1 == m[ty1]
                 set_ref2 == m[ty2]
                 set2     == st.sets[set_ref2]
                 new_set_ == st.sets[set_ref1] \cup set2
             IN  [st EXCEPT !.set_map = [t \in DOMAIN m |->
                                            IF t \in set2 THEN set_ref1 ELSE m[t]],
                            !.sets = [[st.sets EXCEPT ![set_ref1] = new_set_]
                                          EXCEPT ![set_ref2] = {}]]
        ELSE IF ty1 \in DOMAIN m
        THEN \* (Some(&set_ref), None)
             [st EXCEPT !.sets = [st.sets EXCEPT ![m[ty1]] = @ \cup {ty2}],
                        !.set_map = MapInsert(m, ty2, m[ty1])]
        ELSE IF ty2 \in DOMAIN m
        THEN \* (None, Some(&set_ref))
             [st EXCEPT !.sets = [st.sets EXCEPT ![m[ty2]] = @ \cup {ty1}],
                        !.set_map = MapInsert(m, ty1, m[ty2])]
        ELSE \* (None, None)
             [st EXCEPT !.sets = Append(st.sets, {ty2, ty1}),
                        !.set_map = MapInsert(MapInsert(m, ty2, Len(st.sets) + 1),
                                              ty1, Len(st.sets) + 1)]

\* lines 160-175: exactly one side is a trait object
EmitConstraint(st, bounded_ty, bounds) ==
    [st EXCEPT !.constraints = @ \cup {PredicateType(bounded_ty, bounds)}]

RECURSIVE insert_as_equal_to(_, _, _)
RECURSIVE insert_inner_type_as_equal_to(_, _, _)
RECURSIVE insert_path_arguments_as_equal_to(_, _, _)
RECURSIVE InsertEach(_, _, _, _)
RECURSIVE InsertEachArgument(_, _, _, _)
RECURSIVE InsertEachBound(_, _, _, _)

\* zip(..).for_each(|(ty1, t2)| self.insert_as_equal_to(ty1, t2, ..)), from i on
InsertEach(st, types1, types2, i) ==
    IF i > Len(types1) \/ i > Len(types2) \/ st.panic # "none" THEN st
    ELSE InsertEach(insert_as_equal_to(st, types1[i], types2[i]), types1, types2, i + 1)

\* lines 304-316: the generic arguments of two final segments, pairwise
InsertEachArgument(st, args1, args2, i) ==
    IF i > Len(args1) \/ i > Len(args2) \/ st.panic # "none" THEN st
    ELSE IF args1[i].k # "Lifetime" /\ args2[i].k # "Lifetime"
    THEN InsertEachArgument(insert_as_equal_to(st, args1[i], args2[i]), args1, args2, i + 1)
    ELSE Panic(st, "unimplemented")

\* lines 256-269: the bounds of two trait objects, pairwise
InsertEachBound(st, bounds1, bounds2, i) ==
    IF i > Len(bounds1) \/ i > Len(bounds2) \/ st.panic # "none" THEN st
    ELSE IF bounds1[i].k = "TraitBound" /\ bounds2[i].k = "TraitBound"
    THEN InsertEachBound(insert_path_arguments_as_equal_to(st, bounds1[i], bounds2[i]),
                         bounds1, bounds2, i + 1)
    ELSE InsertEachBound(st, bounds1, bounds2, i + 1)

\* A faulty variant: the arguments are compared whatever their number
PathArgumentsIgnoringCount(st, path1, path2) ==
    LET segment1 == LastSegment(path1)
        segment2 == LastSegment(path2)
    IN  IF st.panic # "none" THEN st
        ELSE IF segment1.ak = "AngleBracketed" /\ segment2.ak = "AngleBracketed"
        THEN InsertEachArgument(st, segment1.args, segment2.args, 1)
        ELSE IF segment1.ak = "Parenthesized" \/ segment2.ak = "Parenthesized"
        THEN Panic(st, "unimplemented")
        ELSE st

insert_path_arguments_as_equal_to(st, path1, path2) ==
    LET segment1 == LastSegment(path1)
        segment2 == LastSegment(path2)
    IN  IF st.panic # "none" THEN st
        ELSE IF /\ segment1.ak = "AngleBracketed" /\ segment2.ak = "AngleBracketed"
                /\ Len(segment1.args) = Len(segment2.args)
        THEN InsertEachArgument(st, segment1.args, segment2.args, 1)
        ELSE IF segment1.ak = "Parenthesized" \/ segment2.ak = "Parenthesized"
        THEN Panic(st, "unimplemented")
        ELSE st

\* A faulty variant: two tuples of different lengths are unified element by
\* element as far as the shorter one goes
InnerZippingTuples(st, ty1, ty2) ==
    IF st.panic # "none" THEN st
    ELSE IF ty1.k = "Tuple" /\ ty2.k = "Tuple"
    THEN IF Len(ty1.args) <= Len(ty2.args)
         THEN InsertEach(st, ty1.args, SubSeq(ty2.args, 1, Len(ty1.args)), 1)
         ELSE InsertEach(st, SubSeq(ty1.args, 1, Len(ty2.args)), ty2.args, 1)
    ELSE IF ty1.k = "Reference" /\ ty2.k = "Reference"
    THEN insert_as_equal_to(st, ty1.args[1], ty2.args[1])
    ELSE IF ty1.k = "ReferenceMut" /\ ty2.k = "ReferenceMut"
    THEN insert_as_equal_to(st, ty1.args[1], ty2.args[1])
    ELSE IF ty1.k = "Path" /\ ty2.k = "Path"
    THEN insert_path_arguments_as_equal_to(st, ty1, ty2)
    ELSE IF ty1.k = "TraitObject" /\ ty2.k = "TraitObject"
    THEN InsertEachBound(st, ty1.args, ty2.args, 1)
    ELSE st

insert_inner_type_as_equal_to(st, ty1, ty2) ==
    IF st.panic # "none" THEN st
    ELSE IF ty1.k = "Tuple" /\ ty2.k = "Tuple"
    THEN IF Len(ty1.args) = Len(ty2.args)
         THEN InsertEach(st, ty1.args, ty2.args, 1)
         ELSE Panic(st, "tuples have different number of arguments")
    ELSE IF ty1.k = "Reference" /\ ty2.k = "Reference"
    THEN insert_as_equal_to(st, ty1.args[1], ty2.args[1])
    ELSE IF ty1.k = "ReferenceMut" /\ ty2.k = "ReferenceMut"
    THEN insert_as_equal_to(st, ty1.args[1], ty2.args[1])
    ELSE IF ty1.k = "Path" /\ ty2.k = "Path"
    THEN insert_path_arguments_as_equal_to(st, ty1, ty2)
    ELSE IF ty1.k = "TraitObject" /\ ty2.k = "TraitObject"
    THEN InsertEachBound(st, ty1.args, ty2.args, 1)
    ELSE st

\* A faulty variant: a reference and a mutable reference treated as any two types
InsertRefPairAsEqual(st, ty1, ty2) ==
    IF st.panic # "none" THEN st
    ELSE IF ty1.k = "TraitObject" /\ ty2.k = "TraitObject"
    THEN IF Len(ty1.args) # Len(ty2.args)
         THEN Panic(st, "trait objects have different number of bounds")
         ELSE insert_inner_type_as_equal_to(st, ty1, ty2)
    ELSE IF ty1.k = "TraitObject" THEN EmitConstraint(st, ty2, ty1.args)
    ELSE IF ty2.k = "TraitObject" THEN EmitConstraint(st, ty1, ty2.args)
    ELSE LET mid == insert_inner_type_as_equal_to(st, ty1, ty2)
         IN  IF mid.panic # "none" THEN mid ELSE RecordEquality(mid, ty1, ty2)

\* A faulty variant: a trait object on one side is recorded as equal to the other
\* type as well as bounding it
InsertTraitObjectAsEqual(st, ty1, ty2) ==
    IF st.panic # "none" THEN st
    ELSE IF ty1.k = "TraitObject" /\ ty2.k = "TraitObject"
    THEN IF Len(ty1.args) # Len(ty2.args)
         THEN Panic(st, "trait objects have different number of bounds")
         ELSE insert_inner_type_as_equal_to(st, ty1, ty2)
    ELSE IF ty1.k = "TraitObject" THEN RecordEquality(EmitConstraint(st, ty2, ty1.args), ty1, ty2)
    ELSE IF ty2.k = "TraitObject" THEN RecordEquality(EmitConstraint(st, ty1, ty2.args), ty1, ty2)
    ELSE IF \/ ty1.k = "Reference" /\ ty2.k = "ReferenceMut"
            \/ ty1.k = "ReferenceMut" /\ ty2.k = "Reference"
    THEN insert_as_equal_to(st, ty1.args[1], ty2.args[1])
    ELSE LET mid == insert_inner_type_as_equal_to(st, ty1, ty2)
         IN  IF mid.panic # "none" THEN mid ELSE RecordEquality(mid, ty1, ty2)

\* A faulty variant: the bounds of two trait objects are paired whatever their
\* numbers
InsertTraitObjectsZipping(st, ty1, ty2) ==
    IF st.panic # "none" THEN st
    ELSE IF ty1.k = "TraitObject" /\ ty2.k = "TraitObject"
    THEN insert_inner_type_as_equal_to(st, ty1, ty2)
    ELSE IF ty1.k = "TraitObject" THEN EmitConstraint(st, ty2, ty1.args)
    ELSE IF ty2.k = "TraitObject" THEN EmitConstraint(st, ty1, ty2.args)
    ELSE IF \/ ty1.k = "Reference" /\ ty2.k = "ReferenceMut"
            \/ ty1.k = "ReferenceMut" /\ ty2.k = "Reference"
    THEN insert_as_equal_to(st, ty1.args[1], ty2.args[1])
    ELSE LET mid == insert_inner_type_as_equal_to(st, ty1, ty2)
         IN  IF mid.panic # "none" THEN mid ELSE RecordEquality(mid, ty1, ty2)

\* lines 151-225
insert_as_equal_to(st, ty1, ty2) ==
    IF st.panic # "none" THEN st
    ELSE IF ty1.k = "TraitObject" /\ ty2.k = "TraitObject"
    THEN IF Len(ty1.args) # Len(ty2.args)
         THEN Panic(st, "trait objects have different number of bounds")
         ELSE insert_inner_type_as_equal_to(st, ty1, ty2)
    ELSE IF ty1.k = "TraitObject" THEN EmitConstraint(st, ty2, ty1.args)
    ELSE IF ty2.k = "TraitObject" THEN EmitConstraint(st, ty1, ty2.args)
    ELSE IF \/ ty1.k = "Reference" /\ ty2.k = "ReferenceMut"
            \/ ty1.k = "ReferenceMut" /\ ty2.k = "Reference"
    THEN insert_as_equal_to(st, ty1.args[1], ty2.args[1])
    ELSE LET mid == insert_inner_type_as_equal_to(st, ty1, ty2)
         IN  IF mid.panic # "none" THEN mid ELSE RecordEquality(mid, ty1, ty2)

(***************************************************************************)
(* Synthesis of the most concrete type.  The functions read the partition  *)
(* and thread the cache (most_concrete_type_map) through every call.       *)
(*   env  [set_map, sets, order]: the partition, and for every handle the  *)
(*        order in which its HashSet is iterated                           *)
(*   cx   [map, panic]: the cache, and "none" or the panic that unwound    *)
(*   d    the number of TypeEqualitySetRef::make_most_concrete calls that  *)
(*        are on the stack                                                 *)
(* Each returns [node, cx].  A call nested deeper than Cutoff(env) is cut  *)
(* off and reported as "diverged".                                         *)
(***************************************************************************)
Cutoff(env) == Len(env.sets) + 2

Ret(node, cx) == [node |-> node, cx |-> cx]

Fail(cx, what) == Ret(Infer, IF cx.panic = "none" THEN [cx EXCEPT !.panic = what] ELSE cx)

CacheInsert(cx, set_ref, node) ==
    [cx EXCEPT !.map = [h \in (DOMAIN cx.map) \cup {set_ref} |->
                           IF h = set_ref THEN node ELSE cx.map[h]]]

RECURSIVE make_most_concrete(_, _, _, _)
RECURSIVE FoldMembers(_, _, _, _, _, _)
RECURSIVE type_make_most_concrete(_, _, _, _)
RECURSIVE make_most_concrete_from_pair(_, _, _, _, _)
RECURSIVE make_most_concrete_inner(_, _, _, _)
RECURSIVE path_make_most_concrete_inner(_, _, _, _)
RECURSIVE path_make_most_concrete_from_pair(_, _, _, _, _)
RECURSIVE EachMostConcrete(_, _, _, _, _, _)
RECURSIVE EachArgumentMostConcrete(_, _, _, _, _, _)
RECURSIVE EachFromPair(_, _, _, _, _, _, _)
RECURSIVE EachArgumentFromPair(_, _, _, _, _, _, _)

\* types.into_iter().map(|ty| ty.make_most_concrete(..)).collect(), from i on
EachMostConcrete(types, i, acc, env, cx, d) ==
    IF cx.panic # "none" THEN Fail(cx, cx.panic)
    ELSE IF i > Len(types) THEN Ret(acc, cx)
    ELSE LET r == type_make_most_concrete(types[i], env, cx, d)
         IN  EachMostConcrete(types, i + 1, Append(acc, r.node), env, r.cx, d)

\* lines 904-918: the generic arguments of a final segment
EachArgumentMostConcrete(args, i, acc, env, cx, d) ==
    IF cx.panic # "none" THEN Fail(cx, cx.panic)
    ELSE IF i > Len(args) THEN Ret(acc, cx)
    ELSE IF args[i].k = "Lifetime" THEN Fail(cx, "unimplemented")
    ELSE LET r == type_make_most_concrete(args[i], env, cx, d)
         IN  EachArgumentMostConcrete(args, i + 1, Append(acc, r.node), env, r.cx, d)

\* lines 676-687: the elements of two tuples, pairwise
EachFromPair(types1, types2, i, acc, env, cx, d) ==
    IF cx.panic # "none" THEN Fail(cx, cx.panic)
    ELSE IF i > Len(types1) \/ i > Len(types2) THEN Ret(acc, cx)
    ELSE LET r == make_most_concrete_from_pair(types1[i], types2[i], env, cx, d)
         IN  EachFromPair(types1, types2, i + 1, Append(acc, r.node), env, r.cx, d)

\* lines 983-1004: the generic arguments of two final segments, pairwise
EachArgumentFromPair(args1, args2, i, acc, env, cx, d) ==
    IF cx.panic # "none" THEN Fail(cx, cx.panic)
    ELSE IF i > Len(args1) \/ i > Len(args2) THEN Ret(acc, cx)
    ELSE IF args1[i].k # "Lifetime" /\ args2[i].k # "Lifetime"
    THEN LET r == make_most_concrete_from_pair(args1[i], args2[i], env, cx, d)
         IN  EachArgumentFromPair(args1, args2, i + 1, Append(acc, r.node), env, r.cx, d)
    ELSE IF args1[i].k = "Lifetime" /\ args2[i].k = "Lifetime"
    THEN EachArgumentFromPair(args1, args2, i + 1, Append(acc, args1[i]), env, cx, d)
    ELSE Fail(cx, "unimplemented")

\* the path with the arguments of its final segment replaced
WithArguments(path, args) ==
    [path EXCEPT !.path[Len(path.path)].args = args]

\* Path::make_most_concrete_inner, lines 893-930
path_make_most_concrete_inner(path, env, cx, d) ==
    LET segment == LastSegment(path)
    IN  IF cx.panic # "none" THEN Fail(cx, cx.panic)
        ELSE IF segment.ak = "None" THEN Ret(path, cx)
        ELSE IF segment.ak = "AngleBracketed"
        THEN LET r == EachArgumentMostConcrete(segment.args, 1, <<>>, env, cx, d)
             IN  IF r.cx.panic # "none" THEN Fail(r.cx, r.cx.panic)
                 ELSE Ret(WithArguments(path, r.node), r.cx)
        ELSE Fail(cx, "unimplemented")

\* A faulty variant: of two paths with the same number of arguments the
\* second is kept whatever the paths are
PathPairKeepingSecond(path1, path2, env, cx, d) ==
    LET segment1 == LastSegment(path1)
        segment2 == LastSegment(path2)
    IN  IF cx.panic # "none" THEN Fail(cx, cx.panic)
        ELSE IF segment1.ak = "None" THEN Ret(path1, cx)
        ELSE IF segment2.ak = "None" THEN Ret(path2, cx)
        ELSE IF segment1.ak = "AngleBracketed" /\ segment2.ak = "AngleBracketed"
        THEN IF Len(segment1.args) < Len(segment2.args)
             THEN type_make_most_concrete(path1, env, cx, d)
             ELSE IF Len(segment1.args) > Len(segment2.args)
             THEN type_make_most_concrete(path2, env, cx, d)
             ELSE LET r == EachArgumentFromPair(segment1.args, segment2.args, 1, <<>>,
                                                env, cx, d)
                  IN  IF r.cx.panic # "none" THEN Fail(r.cx, r.cx.panic)
                      ELSE Ret(WithArguments(path2, r.node), r.cx)
        ELSE IF segment1.ak = "Parenthesized" /\ segment2.ak = "Parenthesized"
        THEN Fail(cx, "unimplemented")
        ELSE Fail(cx, "incompatible types")

\* Path::make_most_concrete_from_pair, lines 955-1020
path_make_most_concrete_from_pair(path1, path2, env, cx, d) ==
    LET segment1 == LastSegment(path1)
        segment2 == LastSegment(path2)
    IN  IF cx.panic # "none" THEN Fail(cx, cx.panic)
        ELSE IF segment1.ak = "None" THEN Ret(path1, cx)
        ELSE IF segment2.ak = "None" THEN Ret(path2, cx)
        ELSE IF segment1.ak = "AngleBracketed" /\ segment2.ak = "AngleBracketed"
        THEN IF Len(segment1.args) < Len(segment2.args)
             THEN type_make_most_concrete(path1, env, cx, d)
             ELSE IF Len(segment1.args) > Len(segment2.args)
             THEN type_make_most_concrete(path2, env, cx, d)
             ELSE LET r == EachArgumentFromPair(segment1.args, segment2.args, 1, <<>>,
                                                env, cx, d)
                  IN  IF r.cx.panic # "none" THEN Fail(r.cx, r.cx.panic)
                      ELSE IF path1.global \/ Len(path1.path) < Len(path2.path)
                      THEN Ret(WithArguments(path1, r.node), r.cx)
                      ELSE Ret(WithArguments(path2, r.node), r.cx)
        ELSE IF segment1.ak = "Parenthesized" /\ segment2.ak = "Parenthesized"
        THEN Fail(cx, "unimplemented")
        ELSE Fail(cx, "incompatible types")

\* TypeNode::make_most_concrete_inner, lines 728-760
make_most_concrete_inner(node, env, cx, d) ==
    IF cx.panic # "none" THEN Fail(cx, cx.panic)
    ELSE IF node.k = "Tuple"
    THEN LET r == EachMostConcrete(node.args, 1, <<>>, env, cx, d)
         IN  IF r.cx.panic # "none" THEN Fail(r.cx, r.cx.panic)
             ELSE Ret([node EXCEPT !.args = r.node], r.cx)
    ELSE IF node.k \in {"Reference", "ReferenceMut"}
    THEN LET r == type_make_most_concrete(node.args[1], env, cx, d)
         IN  IF r.cx.panic # "none" THEN Fail(r.cx, r.cx.panic)
             ELSE Ret([node EXCEPT !.args = <<r.node>>], r.cx)
    ELSE IF node.k = "Path" THEN path_make_most_concrete_inner(node, env, cx, d)
    ELSE Ret(node, cx)

\* A faulty variant: two tuples are paired element by element whatever their
\* lengths
FromPairZippingTuples(ty1, ty2, env, cx, d) ==
    IF cx.panic # "none" THEN Fail(cx, cx.panic)
    ELSE IF ty1.k = "Infer" THEN make_most_concrete_inner(ty2, env, cx, d)
    ELSE IF ty2.k = "Infer" THEN make_most_concrete_inner(ty1, env, cx, d)
    ELSE IF ty1.k = "PrimitiveStr" \/ ty2.k = "PrimitiveStr" THEN Ret(PrimitiveStr, cx)
    ELSE IF ty1.k = "Path" /\ ty2.k = "Path"
    THEN path_make_most_concrete_from_pair(ty1, ty2, env, cx, d)
    ELSE IF ty1.k = "Path" THEN path_make_most_concrete_inner(ty1, env, cx, d)
    ELSE IF ty2.k = "Path" THEN path_make_most_concrete_inner(ty2, env, cx, d)
    ELSE IF ty1.k = "Tuple" /\ ty2.k = "Tuple"
    THEN LET r == EachFromPair(ty1.args, ty2.args, 1, <<>>, env, cx, d)
         IN  IF r.cx.panic # "none" THEN Fail(r.cx, r.cx.panic)
             ELSE Ret(Tuple(r.node), r.cx)
    ELSE IF \/ ty1.k = "Reference" /\ ty2.k = "Reference"
            \/ ty1.k = "ReferenceMut" /\ ty2.k = "ReferenceMut"
    THEN LET r == make_most_concrete_from_pair(ty1.args[1], ty2.args[1], env, cx, d)
         IN  IF r.cx.panic # "none" THEN Fail(r.cx, r.cx.panic)
             ELSE Ret(Node(ty1.k, 0, NoLifetime, FALSE, <<>>, <<r.node>>), r.cx)
    ELSE IF ty1.k = "TraitObject" THEN make_most_concrete_inner(ty2, env, cx, d)
    ELSE IF ty2.k = "TraitObject" THEN make_most_concrete_inner(ty1, env, cx, d)
    ELSE IF ty1.k = "TypeParam" /\ ty2.k = "TypeParam"
    THEN IF ty1.id < ty2.id THEN Ret(ty1, cx) ELSE Ret(ty2, cx)
    ELSE Fail(cx, "incompatible types")

\* TypeNode::make_most_concrete_from_pair, lines 647-726
make_most_concrete_from_pair(ty1, ty2, env, cx, d) ==
    IF cx.panic # "none" THEN Fail(cx, cx.panic)
    ELSE IF ty1.k = "Infer" THEN make_most_concrete_inner(ty2, env, cx, d)
    ELSE IF ty2.k = "Infer" THEN make_most_concrete_inner(ty1, env, cx, d)
    ELSE IF ty1.k = "PrimitiveStr" \/ ty2.k = "PrimitiveStr" THEN Ret(PrimitiveStr, cx)
    ELSE IF ty1.k = "Path" /\ ty2.k = "Path"
    THEN path_make_most_concrete_from_pair(ty1, ty2, env, cx, d)
    ELSE IF ty1.k = "Path" THEN path_make_most_concrete_inner(ty1, env, cx, d)
    ELSE IF ty2.k = "Path" THEN path_make_most_concrete_inner(ty2, env, cx, d)
    ELSE IF ty1.k = "Tuple" /\ ty2.k = "Tuple" /\ Len(ty1.args) = Len(ty2.args)
    THEN LET r == EachFromPair(ty1.args, ty2.args, 1, <<>>, env, cx, d)
         IN  IF r.cx.panic # "none" THEN Fail(r.cx, r.cx.panic)
             ELSE Ret(Tuple(r.node), r.cx)
    ELSE IF \/ ty1.k = "Reference" /\ ty2.k = "Reference"
            \/ ty1.k = "ReferenceMut" /\ ty2.k = "ReferenceMut"
    THEN LET r == make_most_concrete_from_pair(ty1.args[1], ty2.args[1], env, cx, d)
         IN  IF r.cx.panic # "none" THEN Fail(r.cx, r.cx.panic)
             ELSE Ret(Node(ty1.k, 0, NoLifetime, FALSE, <<>>, <<r.node>>), r.cx)
    ELSE IF ty1.k = "TraitObject" THEN make_most_concrete_inner(ty2, env, cx, d)
    ELSE IF ty2.k = "TraitObject" THEN make_most_concrete_inner(ty1, env, cx, d)
    ELSE IF ty1.k = "TypeParam" /\ ty2.k = "TypeParam"
    THEN IF ty1.id < ty2.id THEN Ret(ty1, cx) ELSE Ret(ty2, cx)
    ELSE Fail(cx, "incompatible types")

\* TypeNode::make_most_concrete, lines 631-642
type_make_most_concrete(node, env, cx, d) ==
    IF cx.panic # "none" THEN Fail(cx, cx.panic)
    ELSE IF node \in DOMAIN env.set_map
    THEN make_most_concrete(env.set_map[node], env, cx, d + 1)
    ELSE Ret(node, cx)

\* iterator.fold(first, |current, ty| make_most_concrete_from_pair(current, ty, ..))
FoldMembers(current, members, i, env, cx, d) ==
    IF cx.panic # "none" THEN Fail(cx, cx.panic)
    ELSE IF i > Len(members) THEN Ret(current, cx)
    ELSE LET r == make_most_concrete_from_pair(current, members[i], env, cx, d)
         IN  FoldMembers(r.node, members, i + 1, env, r.cx, d)

\* A faulty variant: the entry of the handle is not set to Infer before the members
\* are folded
MostConcreteWithoutPlaceholder(set_ref, env, cx, d) ==
    IF cx.panic # "none" THEN Fail(cx, cx.panic)
    ELSE IF d > Cutoff(env) THEN Fail(cx, "diverged")
    ELSE IF set_ref \in DOMAIN cx.map THEN Ret(cx.map[set_ref], cx)
    ELSE LET members == env.order[set_ref]
         IN  IF Len(members) = 0 THEN Fail(cx, "unwrap on None")
             ELSE LET r == IF Len(members) = 1
                           THEN make_most_concrete_inner(members[1], env, cx, d)
                           ELSE FoldMembers(members[1], members, 2, env, cx, d)
                  IN  IF r.cx.panic # "none" THEN Fail(r.cx, r.cx.panic)
                      ELSE Ret(r.node, CacheInsert(r.cx, set_ref, r.node))

\* A faulty variant: the placeholder of the handle is not replaced by the type
\* that was computed
MostConcreteKeepingPlaceholder(set_ref, env, cx, d) ==
    IF cx.panic # "none" THEN Fail(cx, cx.panic)
    ELSE IF d > Cutoff(env) THEN Fail(cx, "diverged")
    ELSE IF set_ref \in DOMAIN cx.map THEN Ret(cx.map[set_ref], cx)
    ELSE LET cx1     == CacheInsert(cx, set_ref, Infer)
             members == env.order[set_ref]
         IN  IF Len(members) = 0 THEN Fail(cx1, "unwrap on None")
             ELSE LET r == IF Len(members) = 1
                           THEN make_most_concrete_inner(members[1], env, cx1, d)
                           ELSE FoldMembers(members[1], members, 2, env, cx1, d)
                  IN  IF r.cx.panic # "none" THEN Fail(r.cx, r.cx.panic)
                      ELSE Ret(r.node, r.cx)

\* TypeEqualitySetRef::make_most_concrete, lines 77-117
make_most_concrete(set_ref, env, cx, d) ==
    IF cx.panic # "none" THEN Fail(cx, cx.panic)
    ELSE IF d > Cutoff(env) THEN Fail(cx, "diverged")
    ELSE IF set_ref \in DOMAIN cx.map THEN Ret(cx.map[set_ref], cx)
    ELSE LET cx1     == CacheInsert(cx, set_ref, Infer)
             members == env.order[set_ref]
         IN  IF Len(members) = 0 THEN Fail(cx1, "unwrap on None")
             ELSE LET r == IF Len(members) = 1
                           THEN make_most_concrete_inner(members[1], env, cx1, d)
                           ELSE FoldMembers(members[1], members, 2, env, cx1, d)
                  IN  IF r.cx.panic # "none" THEN Fail(r.cx, r.cx.panic)
                      ELSE Ret(r.node, CacheInsert(r.cx, set_ref, r.node))

(***************************************************************************)
(* Relevance of constraints.  A constraint is a PredicateType, or the      *)
(* record of a GenericConstraint::Lifetime.  `relevant` is the set of      *)
(* handles that generic_param_set_refs returns.                            *)
(***************************************************************************)
\* GenericConstraint::Lifetime(..), about the lifetime with identity i
LifetimeConstraint(i) ==
    [kind |-> "Lifetime", lifetimes |-> <<>>, bounded_ty |-> LifetimeArg(i), bounds |-> <<>>]

RECURSIVE is_relevant_for_constraint(_, _, _)
RECURSIVE ArgumentsRelevant(_, _, _, _)
RECURSIVE SegmentsRelevant(_, _, _, _)
RECURSIVE BoundsRelevant(_, _, _, _)

\* A faulty variant: a type that is no generic variable and no reference
\* counts as relevant
IsRelevantAcceptingConcrete(node, m, relevant) ==
    IF node.k = "TypeParam" THEN node \in DOMAIN m /\ m[node] \in relevant
    ELSE IF node.k \in {"Reference", "ReferenceMut"}
    THEN is_relevant_for_constraint(node.args[1], m, relevant)
    ELSE TRUE

\* TypeNode::is_relevant_for_constraint, lines 605-629 (m is set_map)
is_relevant_for_constraint(node, m, relevant) ==
    IF node.k = "TypeParam" THEN node \in DOMAIN m /\ m[node] \in relevant
    ELSE IF node.k \in {"Reference", "ReferenceMut"}
    THEN is_relevant_for_constraint(node.args[1], m, relevant)
    ELSE FALSE

\* args.iter().all(..) of lines 849-857, from i on
ArgumentsRelevant(args, i, m, relevant) ==
    IF i > Len(args) THEN TRUE
    ELSE IF args[i].k = "Lifetime" THEN ArgumentsRelevant(args, i + 1, m, relevant)
    ELSE /\ is_relevant_for_constraint(args[i], m, relevant)
         /\ ArgumentsRelevant(args, i + 1, m, relevant)

\* self.path.iter().all(..) of lines 846-862, from i on: "true", "false",
\* or "unimplemented" when a parenthesized segment is met before a segment
\* that is not relevant
SegmentsRelevant(segments, i, m, relevant) ==
    IF i > Len(segments) THEN "true"
    ELSE IF segments[i].ak = "Parenthesized" THEN "unimplemented"
    ELSE IF segments[i].ak = "AngleBracketed" /\ ~ArgumentsRelevant(segments[i].args, 1, m, relevant)
    THEN "false"
    ELSE SegmentsRelevant(segments, i + 1, m, relevant)

\* Path::is_relevant_for_constraint, lines 841-863
path_is_relevant_for_constraint(path, m, relevant) ==
    SegmentsRelevant(path.path, 1, m, relevant)

\* TypeParamBound::is_relevant_for_constraint, lines 797-816
bound_is_relevant_for_constraint(bound, m, relevant) ==
    IF bound.k = "TraitBound" THEN path_is_relevant_for_constraint(bound, m, relevant)
    ELSE "true"

\* self.bounds.iter().all(..) of lines 575-577, from i on
BoundsRelevant(bounds, i, m, relevant) ==
    IF i > Len(bounds) THEN "true"
    ELSE LET this == bound_is_relevant_for_constraint(bounds[i], m, relevant)
         IN  IF this = "true" THEN BoundsRelevant(bounds, i + 1, m, relevant) ELSE this

\* PredicateType::is_relevant_for_constraint, lines 566-578
predicate_is_relevant_for_constraint(pred_ty, m, relevant) ==
    IF is_relevant_for_constraint(pred_ty.bounded_ty, m, relevant)
    THEN BoundsRelevant(pred_ty.bounds, 1, m, relevant)
    ELSE "false"

\* GenericConstraint::is_relevant, lines 532-546
is_relevant(constraint, m, relevant) ==
    IF constraint.kind = "Type" THEN predicate_is_relevant_for_constraint(constraint, m, relevant)
    ELSE "true"

RECURSIVE EachBoundMostConcrete(_, _, _, _, _)
RECURSIVE AfterBound(_, _, _, _, _)
\* self.bounds.into_iter().map(|bound| bound.make_most_concrete_inner(..)), from i on
EachBoundMostConcrete(bounds, i, acc, env, cx) ==
    IF cx.panic # "none" THEN Fail(cx, cx.panic)
    ELSE IF i > Len(bounds) THEN Ret(acc, cx)
    ELSE AfterBound(bounds, i, acc, env,
                    IF bounds[i].k = "TraitBound"
                    THEN path_make_most_concrete_inner(bounds[i], env, cx, 0)
                    ELSE Ret(bounds[i], cx))

\* the bound i collected as r.node (line 594), and the next bound met
AfterBound(bounds, i, acc, env, r) ==
    EachBoundMostConcrete(bounds, i + 1, Append(acc, r.node), env, r.cx)

\* the PredicateType of lines 596-600, from the two results
MostConcretePredicate(pred_ty, bounded_ty, bounds) ==
    IF bounds.cx.panic # "none" THEN Fail(bounds.cx, bounds.cx.panic)
    ELSE Ret([pred_ty EXCEPT !.bounded_ty = bounded_ty.node, !.bounds = bounds.node],
             bounds.cx)

\* the bounds made most concrete (lines 590-594), after the bounded type
BoundsAfter(pred_ty, bounded_ty, env) ==
    MostConcretePredicate(pred_ty, bounded_ty,
                          EachBoundMostConcrete(pred_ty.bounds, 1, <<>>, env, bounded_ty.cx))

\* PredicateType::make_most_concrete, lines 580-601
predicate_make_most_concrete(pred_ty, env, cx) ==
    BoundsAfter(pred_ty, type_make_most_concrete(pred_ty.bounded_ty, env, cx, 0), env)

\* GenericConstraint::make_most_concrete, lines 548-562
constraint_make_most_concrete(constraint, env, cx) ==
    IF constraint.kind = "Type" THEN predicate_make_most_concrete(constraint, env, cx)
    ELSE Ret(constraint, cx)

\* lines 526-529: Some(most_concrete) or None, as [node, cx, keep]
KeepIf(constraint, most_concrete, verdict) ==
    IF most_concrete.cx.panic # "none"
    THEN [node |-> constraint, cx |-> most_concrete.cx, keep |-> FALSE]
    ELSE IF verdict = "unimplemented"
    THEN [node |-> constraint, cx |-> Fail(most_concrete.cx, "unimplemented").cx,
          keep |-> FALSE]
    ELSE [node |-> most_concrete.node, cx |-> most_concrete.cx, keep |-> verdict = "true"]

\* line 526: the most concrete form judged
Judged(constraint, most_concrete, m, relevant) ==
    KeepIf(constraint, most_concrete, is_relevant(most_concrete.node, m, relevant))

\* GenericConstraint::make_relevant, lines 518-530: [node, cx, keep], where
\* node is the most concrete form and keep tells Some from None
make_relevant(constraint, env, cx, relevant) ==
    Judged(constraint, constraint_make_most_concrete(constraint, env, cx),
           env.set_map, relevant)

(***************************************************************************)
(* The relevant generic parameters.  The walk works on                     *)
(*   w  [set_map, sets, order, out, panic]: the partition with the order   *)
(*      of iteration of every set, and the handles collected so far        *)
(***************************************************************************)
RECURSIVE inner_param_set_refs(_, _)
RECURSIVE EachInnerParamSetRefs(_, _, _)
RECURSIVE ArgumentsInnerParamSetRefs(_, _, _)
RECURSIVE SegmentsInnerParamSetRefs(_, _, _)
RECURSIVE ParamsInOrder(_)
RECURSIVE EachGenericParam(_, _, _, _)
RECURSIVE FilterRelevant(_, _, _, _, _, _)
RECURSIVE AfterRelevant(_, _, _, _, _, _)
RECURSIVE AfterMostConcrete(_, _, _, _)
RECURSIVE WithItsSet(_, _, _, _)

\* let mut most_concrete_type_map = BTreeMap::new() (line 333)
EmptyCacheOfPass == [map |-> <<>>, panic |-> "none"]

\* get_set_ref(ty).unwrap_or_else(|| new_set(ty)) (lines 485-487, 784-788):
\* the walk with ty in a set
WithSetOf(w, ty) ==
    IF ty \in DOMAIN w.set_map THEN w
    ELSE [w EXCEPT !.sets = Append(w.sets, {ty}),
                   !.set_map = MapInsert(w.set_map, ty, Len(w.sets) + 1),
                   !.order = Append(w.order, <<ty>>)]

\* for ty in types.iter() { ty.0.inner_param_set_refs(..) }, from i on
EachInnerParamSetRefs(types, i, w) ==
    IF i > Len(types) \/ w.panic # "none" THEN w
    ELSE EachInnerParamSetRefs(types, i + 1, inner_param_set_refs(types[i], w))

\* lines 870-881: the generic arguments of one segment, from i on
ArgumentsInnerParamSetRefs(args, i, w) ==
    IF i > Len(args) \/ w.panic # "none" THEN w
    ELSE IF args[i].k = "Lifetime" THEN [w EXCEPT !.panic = "unimplemented"]
    ELSE ArgumentsInnerParamSetRefs(args, i + 1, inner_param_set_refs(args[i], w))

\* Path::inner_param_set_refs, lines 865-891: the segments from i on
SegmentsInnerParamSetRefs(segments, i, w) ==
    IF i > Len(segments) \/ w.panic # "none" THEN w
    ELSE IF segments[i].ak = "Parenthesized" THEN [w EXCEPT !.panic = "unimplemented"]
    ELSE IF segments[i].ak = "AngleBracketed"
    THEN SegmentsInnerParamSetRefs(segments, i + 1,
                                   ArgumentsInnerParamSetRefs(segments[i].args, 1, w))
    ELSE SegmentsInnerParamSetRefs(segments, i + 1, w)

\* TypeNode::inner_param_set_refs, lines 762-793
inner_param_set_refs(node, w) ==
    IF w.panic # "none" THEN w
    ELSE IF node.k = "Tuple" THEN EachInnerParamSetRefs(node.args, 1, w)
    ELSE IF node.k \in {"Reference", "ReferenceMut"} THEN inner_param_set_refs(node.args[1], w)
    ELSE IF node.k = "Path" THEN SegmentsInnerParamSetRefs(node.path, 1, w)
    ELSE IF node.k = "TypeParam"
    THEN LET w1 == WithSetOf(w, node)
         IN  [w1 EXCEPT !.out = @ \cup {w1.set_map[node]}]
    ELSE w

\* the declared generic parameters in the order of the BTreeSet
ParamsInOrder(params) ==
    IF params = {} THEN <<>>
    ELSE LET first == CHOOSE p \in params : \A q \in params : p.id <= q.id
         IN  <<first>> \o ParamsInOrder(params \ {first})

\* lines 489-490 for the parameter i: the most concrete type r of its set
\* is walked, and the next parameter is met
AfterMostConcrete(params, i, w1, r) ==
    IF r.cx.panic # "none"
    THEN [w |-> [w1 EXCEPT !.panic = r.cx.panic], cx |-> r.cx]
    ELSE EachGenericParam(params, i + 1, inner_param_set_refs(r.node, w1), r.cx)

\* lines 484-489 for the parameter i, whose set exists in w1
WithItsSet(params, i, w1, cx) ==
    AfterMostConcrete(params, i, w1,
                      make_most_concrete(w1.set_map[params[i]],
                                         [set_map |-> w1.set_map, sets |-> w1.sets,
                                          order |-> w1.order], cx, 1))

\* relevant_generic_params.iter().for_each(..) of lines 483-491, from i on:
\* [w, cx]
EachGenericParam(params, i, w, cx) ==
    IF i > Len(params) \/ w.panic # "none" THEN [w |-> w, cx |-> cx]
    ELSE WithItsSet(params, i, WithSetOf(w, params[i]), cx)

\* generic_param_set_refs, lines 475-494
generic_param_set_refs(params, w, cx) ==
    EachGenericParam(ParamsInOrder(params), 1, w, cx)

\* the accumulator of the collect of line 378 after one constraint
Collected(acc, r) == IF r.keep THEN acc \cup {r.node} ELSE acc

\* lines 370-377 for the constraint i, judged as r
AfterRelevant(constraints, i, acc, env, r, relevant) ==
    FilterRelevant(constraints, i + 1, Collected(acc, r), env, r.cx, relevant)

\* constraints.set.into_iter().filter_map(..).collect() of lines 368-378: the
\* constraints are met in the order `constraints`, from i on; [set, cx]
FilterRelevant(constraints, i, acc, env, cx, relevant) ==
    IF cx.panic # "none" \/ i > Len(constraints) THEN [set |-> acc, cx |-> cx]
    ELSE AfterRelevant(constraints, i, acc, env,
                       make_relevant(constraints[i], env, cx, relevant), relevant)

\* what compute_trait_bounds leaves and returns (line 380), or its abort
Returned(g, f) ==
    [set_map |-> g.w.set_map, sets |-> g.w.sets, map |-> f.cx.map,
     relevant |-> g.w.out, returned |-> IF f.cx.panic = "none" THEN f.set ELSE {},
     panic |-> f.cx.panic]

\* A faulty variant: every accumulated constraint is returned in its most
\* concrete form, relevant or not
FilteredKeepingAll(g, constraints) ==
    IF g.w.panic # "none"
    THEN [set_map |-> g.w.set_map, sets |-> g.w.sets, map |-> g.cx.map,
          relevant |-> g.w.out, returned |-> {}, panic |-> g.w.panic]
    ELSE Returned(g, FilterRelevant(constraints, 1, {},
                                    [set_map |-> g.w.set_map, sets |-> g.w.sets,
                                     order |-> g.w.order], g.cx, DOMAIN g.w.sets))

\* lines 368-380, after generic_param_set_refs gave g
Filtered(g, constraints) ==
    IF g.w.panic # "none"
    THEN [set_map |-> g.w.set_map, sets |-> g.w.sets, map |-> g.cx.map,
          relevant |-> g.w.out, returned |-> {}, panic |-> g.w.panic]
    ELSE Returned(g, FilterRelevant(constraints, 1, {},
                                    [set_map |-> g.w.set_map, sets |-> g.w.sets,
                                     order |-> g.w.order], g.cx, g.w.out))

\* lines 362-381 of CompleteImpl::compute_trait_bounds: the relevant
\* parameters, then the constraints made most concrete and filtered
Finish(params, st, order, constraints) ==
    Filtered(generic_param_set_refs(params, [set_map |-> st.set_map, sets |-> st.sets,
                                             order |-> order, out |-> {},
                                             panic |-> "none"], EmptyCacheOfPass),
             constraints)

(***************************************************************************)
(* The state of one inference pass (CompleteImpl::compute_trait_bounds):   *)
(* the solver structures it creates, and the phase it is in: every         *)
(* insert_as_equal_to call is made before the first new_set or             *)
(* make_most_concrete call.                                                *)
(*   family  the types this pass meets                                     *)
(*   calls   the number of insert_as_equal_to calls made so far            *)
(*   last    the call made last: the operation, the branch it took, the    *)
(*           handle it resolved and the type it returned                   *)
(*   log     the arguments of the insert_as_equal_to calls made so far,    *)
(*           kept by the passes over the small families (SpecLog)          *)
(*   generic_params           the generic parameters declared by the       *)
(*           implementation and its trait (lines 336-356)                  *)
(*   generic_constraints      the constraints they declare                 *)
(*   relevant_generic_params  the handles generic_param_set_refs returned  *)
(*   returned                 the constraints compute_trait_bounds returns *)
(* and the thread-local data of global_data.rs, lines 5-11:                *)
(*   VALUES, INVOKES, MACROS  the arenas; a ValueRef, InvokeRef or         *)
(*           MacroInvokeRef r of the model is the index r-1 of the code    *)
(*   TYPE_PARAMS, LIFETIMES   the counters                                 *)
(*   issued  the calls of count() and clear() in their order: the pair of  *)
(*           the counter and the identity returned, or <<"clear", 0>>      *)
(***************************************************************************)
VARIABLES family, set_map, sets, constraints, panic, most_concrete_type_map,
          phase, calls, last, log, generic_params, generic_constraints,
          relevant_generic_params, returned,
          VALUES, INVOKES, MACROS, TYPE_PARAMS, LIFETIMES, issued

vars == <<family, set_map, sets, constraints, panic, most_concrete_type_map,
          phase, calls, last, log, generic_params, generic_constraints,
          relevant_generic_params, returned,
          VALUES, INVOKES, MACROS, TYPE_PARAMS, LIFETIMES, issued>>

\* what only the passes of a whole implementation (SpecImpl) change
driver == <<generic_params, generic_constraints, relevant_generic_params, returned>>

\* the thread-local data
global_data == <<VALUES, INVOKES, MACROS, TYPE_PARAMS, LIFETIMES, issued>>

\* the thread_local! initializers of global_data.rs, lines 5-11
InitGlobalData ==
    /\ VALUES = <<>>
    /\ INVOKES = <<>>
    /\ MACROS = <<>>
    /\ TYPE_PARAMS = 0
    /\ LIFETIMES = 1
    /\ issued = <<>>

\* the number of handles a pass may create
MaxSets == 2

\* the number of insert_as_equal_to calls a pass may make
MaxCalls == 3

Solver == [set_map |-> set_map, sets |-> sets, constraints |-> constraints,
           panic |-> panic]

Call(op, case, shape, set_ref, node) ==
    [op |-> op, case |-> case, shape |-> shape, set_ref |-> set_ref, node |-> node]

\* the branch of insert_as_equal_to that a call takes (the arms of the two
\* matches, lines 153-193 and 195-224)
InsertCase(st, ty1, ty2) ==
    IF ty1.k = "TraitObject" /\ ty2.k = "TraitObject"
    THEN IF insert_as_equal_to(st, ty1, ty2).panic # "none" THEN "panic"
         ELSE "trait_objects"
    ELSE IF ty1.k = "TraitObject" \/ ty2.k = "TraitObject" THEN "constraint"
    ELSE IF \/ ty1.k = "Reference" /\ ty2.k = "ReferenceMut"
            \/ ty1.k = "ReferenceMut" /\ ty2.k = "Reference"
    THEN IF insert_as_equal_to(st, ty1, ty2).panic # "none" THEN "panic"
         ELSE "reference_pair"
    ELSE LET mid == insert_inner_type_as_equal_to(st, ty1, ty2)
         IN  IF mid.panic # "none" THEN "panic"
             ELSE IF ty1 \in DOMAIN mid.set_map /\ ty2 \in DOMAIN mid.set_map
             THEN IF mid.set_map[ty1] = mid.set_map[ty2] THEN "same_set" ELSE "merged"
             ELSE IF ty1 \in DOMAIN mid.set_map THEN "first_has_set"
             ELSE IF ty2 \in DOMAIN mid.set_map THEN "second_has_set"
             ELSE "new"

\* the number of generic arguments of the final segment of a path
ArgumentCount(path) == Len(LastSegment(path).args)

\* what the two arguments of a call are
InsertShape(ty1, ty2) ==
    IF ty1.k = "Path" /\ ty2.k = "Path"
    THEN IF ArgumentCount(ty1) # ArgumentCount(ty2) THEN "paths_other_count"
         ELSE IF ArgumentCount(ty1) > 0 THEN "paths_same_count"
         ELSE "paths_no_arguments"
    ELSE IF ty1 = ty2 THEN "same_type"
    ELSE "other"

InitOver(families) ==
    /\ family \in families
    /\ set_map = <<>>
    /\ sets = <<>>
    /\ constraints = {}
    /\ panic = "none"
    /\ most_concrete_type_map = <<>>
    /\ phase = "unify"
    /\ calls = 0
    /\ last = Call("none", "none", "none", 0, Infer)
    /\ log = <<>>
    /\ generic_params = {}
    /\ generic_constraints = {}
    /\ relevant_generic_params = {}
    /\ returned = {}
    /\ InitGlobalData

Init == InitOver(Families)

InitLog == InitOver(SmallFamilies)

\* one insert_as_equal_to call of the driver (lines 401, 411, 424, 437)
Insert(ty1, ty2) ==
    /\ panic = "none"
    /\ phase = "unify"
    /\ calls < MaxCalls
    /\ calls' = calls + 1
    /\ LET st == insert_as_equal_to(Solver, ty1, ty2)
       IN  /\ Len(st.sets) <= MaxSets
           /\ set_map' = st.set_map
           /\ sets' = st.sets
           /\ constraints' = st.constraints
           /\ panic' = st.panic
    /\ last' = Call("insert_as_equal_to", InsertCase(Solver, ty1, ty2),
                    InsertShape(ty1, ty2), 0, Infer)
    /\ UNCHANGED <<family, most_concrete_type_map, phase>>
    /\ UNCHANGED driver
    /\ UNCHANGED global_data

InsertAsEqualTo(ty1, ty2) == Insert(ty1, ty2) /\ UNCHANGED log

LoggedInsertAsEqualTo(ty1, ty2) == Insert(ty1, ty2) /\ log' = Append(log, <<ty1, ty2>>)

\* get_set_ref(ty).unwrap_or_else(|| new_set(ty)) for a generic variable
\* that has no set (lines 485-487, 784-788)
NewSet(ty) ==
    /\ panic = "none"
    /\ ty.k = "TypeParam"
    /\ ty \notin DOMAIN set_map
    /\ Len(sets) < MaxSets
    /\ LET st == new_set(Solver, ty)
       IN  /\ set_map' = st.set_map
           /\ sets' = st.sets
    /\ phase' = "synthesize"
    /\ last' = Call("new_set", "none", "none", Len(sets) + 1, Infer)
    /\ UNCHANGED <<family, constraints, panic, most_concrete_type_map, calls, log>>
    /\ UNCHANGED driver
    /\ UNCHANGED global_data

\* the orders in which the members of a HashSet may be iterated
Orders(set) ==
    {s \in [1 .. Cardinality(set) -> set] : \A i, j \in DOMAIN s : s[i] = s[j] => i = j}

RECURSIVE OrdersUpTo(_)
OrdersUpTo(h) ==
    IF h = 0 THEN {<<>>}
    ELSE {Append(o, s) : o \in OrdersUpTo(h - 1), s \in Orders(sets[h])}

\* for every handle, an order of its members
IterationOrders == OrdersUpTo(Len(sets))

Env(order) == [set_map |-> set_map, sets |-> sets, order |-> order]

EmptyCache == [map |-> <<>>, panic |-> "none"]

\* TypeNode::make_most_concrete of a type that has a set: the most concrete
\* type of that set, with the cache of the pass (lines 489, 637-638)
MakeMostConcrete(ty, order) ==
    /\ panic = "none"
    /\ ty \in DOMAIN set_map
    /\ LET r == make_most_concrete(set_map[ty], Env(order),
                                   [map |-> most_concrete_type_map, panic |-> "none"], 1)
       IN  /\ most_concrete_type_map' = r.cx.map
           /\ panic' = r.cx.panic
           /\ last' = Call("make_most_concrete",
                           IF set_map[ty] \in DOMAIN most_concrete_type_map
                           THEN "cached" ELSE "computed",
                           "none", set_map[ty], r.node)
    /\ phase' = "synthesize"
    /\ UNCHANGED <<family, set_map, sets, constraints, calls, log>>
    /\ UNCHANGED driver
    /\ UNCHANGED global_data

Next ==
    \/ \E ty1, ty2 \in family : InsertAsEqualTo(ty1, ty2)
    \/ \E ty \in family : NewSet(ty)
    \/ \E ty \in family : \E order \in IterationOrders : MakeMostConcrete(ty, order)

Spec == Init /\ [][Next]_vars

NextLog ==
    \/ \E ty1, ty2 \in family : LoggedInsertAsEqualTo(ty1, ty2)
    \/ \E ty \in family : NewSet(ty)
    \/ \E ty \in family : \E order \in IterationOrders : MakeMostConcrete(ty, order)

SpecLog == InitLog /\ [][NextLog]_vars

(***************************************************************************)
(* The pass over a whole implementation: CompleteImpl::compute_trait_bounds *)
(* with the invocations of its functions (CompleteFunction::               *)
(* compute_trait_bounds).  An invocation is                                *)
(*   receiver            sig.receiver                                      *)
(*   parent              the type of function.parent                       *)
(*   parent_constraints  the constraints of the generics of the parent     *)
(*   inputs              sig.inputs                                        *)
(*   args                the types of the recorded arguments (get_type)    *)
(*   sig_constraints     the constraints of sig.generics                   *)
(***************************************************************************)
Invoke(receiver, parent, parent_constraints, inputs, args, sig_constraints) ==
    [receiver |-> receiver, parent |-> parent, parent_constraints |-> parent_constraints,
     inputs |-> inputs, args |-> args, sig_constraints |-> sig_constraints]

\* the constraint ty: Clone
CloneOf(ty) == PredicateType(ty, DynClone.args)

\* the constraint ty: Into<arg>
IntoOf(ty, arg) == PredicateType(ty, DynInto(arg).args)

\* the invocations a function of the implementation may record
Invocations ==
    { Invoke("NoSelf", Infer, {}, <<T>>, <<PrimitiveStr>>, {}),
      Invoke("NoSelf", Infer, {}, <<T>>, <<U>>, {CloneOf(U)}),
      Invoke("NoSelf", Infer, {}, <<DynClone, U>>, <<T, Generic("Wrapper", <<T>>)>>, {}),
      Invoke("NoSelf", Infer, {}, <<T>>, <<>>, {}),
      Invoke("SelfByValue", Generic("S", <<T>>), {IntoOf(T, U)}, <<>>,
             <<Generic("S", <<U>>)>>, {}),
      Invoke("SelfByReference", Generic("S", <<T>>), {}, <<U>>,
             <<Reference(Generic("S", <<Tuple(<<U>>)>>)), T>>, {CloneOf(Reference(T))}),
      Invoke("SelfByReferenceMut", Generic("S", <<T>>), {CloneOf(T)}, <<>>,
             <<ReferenceMut(Generic("S", <<Simple("String")>>))>>, {}) }

\* the constraints the generics of the implementation or of its trait
\* may declare
DeclaredConstraints ==
    { CloneOf(T), CloneOf(U), IntoOf(U, Simple("String")), CloneOf(Tuple(<<T>>)),
      LifetimeConstraint(1) }

\* the number of invocations of an implementation
MaxInvokes == 2

\* lines 331-356: the solver structures, and the constraints and generic
\* parameters of the implementation and of its trait
InitImpl ==
    /\ family = {}
    /\ set_map = <<>>
    /\ sets = <<>>
    /\ generic_constraints \in {{}} \cup {{c} : c \in DeclaredConstraints}
    /\ constraints = generic_constraints
    /\ panic = "none"
    /\ most_concrete_type_map = <<>>
    /\ phase = "unify"
    /\ calls = 0
    /\ last = Call("none", "none", "none", 0, Infer)
    /\ log = <<>>
    /\ generic_params \in SUBSET {T, U}
    /\ relevant_generic_params = {}
    /\ returned = {}
    /\ InitGlobalData

\* A faulty variant: the number of arguments is not checked, and the inputs
\* are paired with as many arguments as there are
InvokeWithoutAssertion(st, invoke) ==
    LET self == IF invoke.receiver = "NoSelf" THEN 0 ELSE 1
        receiver_ty == IF invoke.receiver = "SelfByReference" THEN Reference(invoke.parent)
                       ELSE IF invoke.receiver = "SelfByReferenceMut"
                       THEN ReferenceMut(invoke.parent)
                       ELSE invoke.parent
    IN  IF st.panic # "none" THEN st
        ELSE LET received == IF self = 0 \/ Len(invoke.args) = 0 THEN st
                             ELSE insert_as_equal_to(st, receiver_ty, invoke.args[1])
                 unified  == InsertEach(received, invoke.inputs,
                                        SubSeq(invoke.args, self + 1, Len(invoke.args)), 1)
             IN  IF unified.panic # "none" THEN unified
                 ELSE [unified EXCEPT !.constraints =
                          @ \cup invoke.parent_constraints \cup invoke.sig_constraints]

\* the body of the for_each of lines 391-463, for one invocation
invoke_compute_trait_bounds(st, invoke) ==
    LET self == IF invoke.receiver = "NoSelf" THEN 0 ELSE 1
        receiver_ty == IF invoke.receiver = "SelfByReference" THEN Reference(invoke.parent)
                       ELSE IF invoke.receiver = "SelfByReferenceMut"
                       THEN ReferenceMut(invoke.parent)
                       ELSE invoke.parent
    IN  IF st.panic # "none" THEN st
        ELSE IF Len(invoke.args) # Len(invoke.inputs) + self THEN Panic(st, "assertion failed")
        ELSE LET received == IF self = 0 THEN st
                             ELSE insert_as_equal_to(st, receiver_ty, invoke.args[1])
                 unified  == InsertEach(received, invoke.inputs,
                                        SubSeq(invoke.args, self + 1, Len(invoke.args)), 1)
             IN  IF unified.panic # "none" THEN unified
                 ELSE [unified EXCEPT !.constraints =
                          @ \cup invoke.parent_constraints \cup invoke.sig_constraints]

\* one more invocation of a function of the implementation is processed
\* (lines 358-360); log keeps the invocations processed so far
ProcessInvoke(invoke) ==
    /\ panic = "none"
    /\ phase = "unify"
    /\ calls < MaxInvokes
    /\ calls' = calls + 1
    /\ LET st == invoke_compute_trait_bounds(Solver, invoke)
       IN  /\ set_map' = st.set_map
           /\ sets' = st.sets
           /\ constraints' = st.constraints
           /\ panic' = st.panic
    /\ last' = Call("invoke", invoke.receiver, "none", 0, Infer)
    /\ log' = Append(log, invoke)
    /\ UNCHANGED <<family, most_concrete_type_map, phase, driver>>
    /\ UNCHANGED global_data

\* lines 362-381: every invocation has been processed; the relevant
\* parameters are computed and the constraints filtered
ComputeTraitBounds(order, constraint_order) ==
    /\ panic = "none"
    /\ phase = "unify"
    /\ \E end \in {Finish(generic_params, Solver, order, constraint_order)} :
           /\ set_map' = end.set_map
           /\ sets' = end.sets
           /\ most_concrete_type_map' = end.map
           /\ relevant_generic_params' = end.relevant
           /\ returned' = end.returned
           /\ panic' = end.panic
    /\ phase' = "returned"
    /\ last' = Call("compute_trait_bounds", "none", "none", 0, Infer)
    /\ UNCHANGED <<family, constraints, calls, log, generic_params, generic_constraints>>
    /\ UNCHANGED global_data

NextImpl ==
    \/ \E invoke \in Invocations : ProcessInvoke(invoke)
    \/ \E order \in IterationOrders : \E constraint_order \in Orders(constraints) :
           ComputeTraitBounds(order, constraint_order)

SpecImpl == InitImpl /\ [][NextImpl]_vars

(***************************************************************************)
(* The thread-local data (src/src/global_data.rs) and the values stored in *)
(* it (src/src/node.rs).  A value is a record of one shape:                *)
(*   v       the variant of ValueNode                                      *)
(*   refs    the values a tuple or a data structure is made of, the        *)
(*           referent of a reference or a dereference, the parent of a     *)
(*           destructure, the invocation or the macro invocation           *)
(*   is_mut  the mutability of a reference                                 *)
(*   ty      the declared type of a binding or a destructure               *)
(***************************************************************************)
Value(v, refs, is_mut, ty) == [v |-> v, refs |-> refs, is_mut |-> is_mut, ty |-> ty]

\* the sizes the arenas and the counters are explored to
MaxValues == 3

MaxInvocations == 1

MaxCount == 4

MaxClears == 1

\* the declared types of bindings, destructures and function outputs
DeclaredTypes == {T, Simple("String")}

\* index_push: the element goes to the end of the arena
index_push(data, element) == Append(data, element)

\* count() that leaves the counter where it is
CountWithoutAdvancing(counter) == [id |-> counter, counter |-> counter]

\* count(): the counter's value is returned and the counter advances
count(counter) == [id |-> counter, counter |-> counter + 1]

\* ValueRef::get_type and ValueNode::get_type: the type, or the panic of the
\* arm that takes every other variant
RECURSIVE get_type(_, _, _)
RECURSIVE EachGetType(_, _, _, _, _)
EachGetType(values, invokes, refs, i, types) ==
    IF i > Len(refs) THEN [ty |-> Tuple(types), panic |-> "none"]
    ELSE LET r == get_type(values, invokes, refs[i])
         IN  IF r.panic # "none" THEN r
             ELSE EachGetType(values, invokes, refs, i + 1, Append(types, r.ty))

ReferenceTo(is_mut, r) ==
    IF r.panic # "none" THEN r
    ELSE [ty |-> IF is_mut THEN ReferenceMut(r.ty) ELSE Reference(r.ty), panic |-> "none"]

get_type(values, invokes, ref) ==
    LET node == values[ref]
    IN  CASE node.v = "Tuple" -> EachGetType(values, invokes, node.refs, 1, <<>>)
          [] node.v = "Str" -> [ty |-> PrimitiveStr, panic |-> "none"]
          [] node.v = "Reference" ->
                 ReferenceTo(node.is_mut, get_type(values, invokes, node.refs[1]))
          [] node.v = "Binding" -> [ty |-> node.ty, panic |-> "none"]
          [] node.v = "Destructure" -> [ty |-> node.ty, panic |-> "none"]
          [] node.v = "Invoke" -> [ty |-> invokes[node.refs[1]].output, panic |-> "none"]
          [] OTHER -> [ty |-> Infer, panic |-> "ValueNode::get_type"]

\* the values that can be pushed when the arenas hold `values`, `invokes`
\* and `macros`: a value refers to values, invocations and macro invocations
\* that exist
ValueRefs(values) == DOMAIN values

ValueNodes(values, invokes, macros) ==
    {Value("Str", <<>>, FALSE, Infer), Value("Tuple", <<>>, FALSE, Infer)}
    \cup {Value("Tuple", <<a>>, FALSE, Infer) : a \in ValueRefs(values)}
    \cup {Value("Tuple", <<a, b>>, FALSE, Infer) : a \in ValueRefs(values), b \in ValueRefs(values)}
    \cup {Value("Reference", <<a>>, m, Infer) : a \in ValueRefs(values), m \in BOOLEAN}
    \cup {Value("Dereference", <<a>>, FALSE, Infer) : a \in ValueRefs(values)}
    \cup {Value("Binding", <<>>, FALSE, ty) : ty \in DeclaredTypes}
    \cup {Value("DataStructure", <<a>>, FALSE, Infer) : a \in ValueRefs(values)}
    \cup {Value("Invoke", <<i>>, FALSE, Infer) : i \in DOMAIN invokes}
    \cup {Value("Destructure", <<a>>, FALSE, ty) : a \in ValueRefs(values), ty \in DeclaredTypes}
    \cup {Value("MacroInvocation", <<i>>, FALSE, Infer) : i \in DOMAIN macros}

\* what stays as it is while the thread-local data changes
solver_data == <<family, set_map, sets, constraints, panic, most_concrete_type_map,
                 phase, calls, last, log, driver>>

InitGlobal == InitOver({{}})

\* VALUES.index_push(node)
PushValue(node) ==
    /\ Len(VALUES) < MaxValues
    /\ VALUES' = index_push(VALUES, node)
    /\ UNCHANGED <<INVOKES, MACROS, TYPE_PARAMS, LIFETIMES, issued>>
    /\ UNCHANGED solver_data

\* INVOKES.index_push(invoke): of an invocation, the output of the signature
PushInvoke(output) ==
    /\ Len(INVOKES) < MaxInvocations
    /\ INVOKES' = index_push(INVOKES, [output |-> output])
    /\ UNCHANGED <<VALUES, MACROS, TYPE_PARAMS, LIFETIMES, issued>>
    /\ UNCHANGED solver_data

\* MACROS.index_push(invoke)
PushMacro ==
    /\ Len(MACROS) < MaxInvocations
    /\ MACROS' = index_push(MACROS, [macro |-> "macro"])
    /\ UNCHANGED <<VALUES, INVOKES, TYPE_PARAMS, LIFETIMES, issued>>
    /\ UNCHANGED solver_data

\* TYPE_PARAMS.count()
CountTypeParam ==
    /\ TYPE_PARAMS < MaxCount
    /\ \E c \in {count(TYPE_PARAMS)} :
           /\ TYPE_PARAMS' = c.counter
           /\ issued' = Append(issued, <<"TYPE_PARAMS", c.id>>)
    /\ UNCHANGED <<VALUES, INVOKES, MACROS, LIFETIMES>>
    /\ UNCHANGED solver_data

\* LIFETIMES.count()
CountLifetime ==
    /\ LIFETIMES < MaxCount
    /\ \E c \in {count(LIFETIMES)} :
           /\ LIFETIMES' = c.counter
           /\ issued' = Append(issued, <<"LIFETIMES", c.id>>)
    /\ UNCHANGED <<VALUES, INVOKES, MACROS, TYPE_PARAMS>>
    /\ UNCHANGED solver_data

\* the calls of clear() so far
Clears == Cardinality({i \in DOMAIN issued : issued[i][1] = "clear"})

\* the thread-local data as one value
GlobalData ==
    [VALUES |-> VALUES, INVOKES |-> INVOKES, MACROS |-> MACROS,
     TYPE_PARAMS |-> TYPE_PARAMS, LIFETIMES |-> LIFETIMES]

\* clear(): the three arenas are emptied, the counters are not reset
clear(data) == [data EXCEPT !.VALUES = <<>>, !.INVOKES = <<>>, !.MACROS = <<>>]

Clear ==
    /\ Clears < MaxClears
    /\ \E cleared \in {clear(GlobalData)} :
           /\ VALUES' = cleared.VALUES
           /\ INVOKES' = cleared.INVOKES
           /\ MACROS' = cleared.MACROS
           /\ TYPE_PARAMS' = cleared.TYPE_PARAMS
           /\ LIFETIMES' = cleared.LIFETIMES
    /\ issued' = Append(issued, <<"clear", 0>>)
    /\ UNCHANGED solver_data

\* the arenas: values are built and typed
NextValues ==
    \/ \E node \in ValueNodes(VALUES, INVOKES, MACROS) : PushValue(node)
    \/ \E output \in DeclaredTypes : PushInvoke(output)
    \/ PushMacro
    \/ Clear

SpecValues == InitGlobal /\ [][NextValues]_vars

\* the counters, with arenas of strings
NextCounters ==
    \/ PushValue(Value("Str", <<>>, FALSE, Infer))
    \/ PushInvoke(T)
    \/ PushMacro
    \/ CountTypeParam
    \/ CountLifetime
    \/ Clear

SpecCounters == InitGlobal /\ [][NextCounters]_vars

(***************************************************************************)
(* Properties of the type equality solver.                                 *)
(***************************************************************************)
\* a state in which the driver may make an insert_as_equal_to call
Unifying == panic = "none" /\ phase = "unify"

\* the set a type is mapped to
ClassOf(st, ty) == st.sets[st.set_map[ty]]

\* the state at the lookup of line 195: the components have been unified
AtLookup(ty1, ty2) == insert_inner_type_as_equal_to(Solver, ty1, ty2)

\* the calls that reach the lookup of line 195
ReachesLookup(ty1, ty2) ==
    /\ ty1.k # "TraitObject"
    /\ ty2.k # "TraitObject"
    /\ ~(ty1.k = "Reference" /\ ty2.k = "ReferenceMut")
    /\ ~(ty1.k = "ReferenceMut" /\ ty2.k = "Reference")
    /\ AtLookup(ty1, ty2).panic = "none"

\* C1: every type is a member of at most one set of the backing list, and
\* the set that set_map designates for a type contains that type.
C1_PartitionInvariant ==
    panic = "none" =>
        /\ \A h1, h2 \in DOMAIN sets : h1 # h2 => sets[h1] \cap sets[h2] = {}
        /\ \A ty \in DOMAIN set_map : ty \in sets[set_map[ty]]

\* C2: a call that reaches the lookup of line 195 with its two arguments
\* mapped to one set, the unification of their components having changed
\* nothing, leaves every set with exactly the members it had.
C2_SharedSetKept ==
    Unifying =>
        \A ty1, ty2 \in family :
            /\ ty1 \in DOMAIN set_map
            /\ ty2 \in DOMAIN set_map
            /\ set_map[ty1] = set_map[ty2]
            /\ ReachesLookup(ty1, ty2)
            /\ AtLookup(ty1, ty2) = Solver
            => LET post == insert_as_equal_to(Solver, ty1, ty2)
               IN  post.panic = "none" => post.sets = sets

\* two solver states with the same classes, whatever the handles are
SamePartition(s1, s2) ==
    /\ s1.constraints = s2.constraints
    /\ DOMAIN s1.set_map = DOMAIN s2.set_map
    /\ Len(s1.sets) = Len(s2.sets)
    /\ {s1.sets[h] : h \in DOMAIN s1.sets} = {s2.sets[h] : h \in DOMAIN s2.sets}
    /\ \A ty \in DOMAIN s1.set_map : ClassOf(s1, ty) = ClassOf(s2, ty)
    /\ \A ty, other \in DOMAIN s1.set_map :
           (s1.set_map[ty] = s1.set_map[other]) = (s2.set_map[ty] = s2.set_map[other])

\* C3: from one solver state, insert_as_equal_to(a, b) and
\* insert_as_equal_to(b, a) abort together, and otherwise leave the same
\* classes and the same constraints.
C3_Symmetry ==
    Unifying =>
        \A ty1, ty2 \in family :
            LET s1 == insert_as_equal_to(Solver, ty1, ty2)
                s2 == insert_as_equal_to(Solver, ty2, ty1)
            IN  /\ (s1.panic = "none") = (s2.panic = "none")
                /\ s1.panic = "none" => SamePartition(s1, s2)

\* C4: the three outcomes of the lookup.  Two different sets: one handle
\* survives with the union, the members of the absorbed set map to it, the
\* absorbed handle is left with the empty set and no handle is added.  One
\* set: the other type joins it.  No set: one new set holds both types.
C4_RecordsOuterEquality ==
    Unifying =>
        \A ty1, ty2 \in family :
            ReachesLookup(ty1, ty2) =>
                LET mid  == AtLookup(ty1, ty2)
                    post == insert_as_equal_to(Solver, ty1, ty2)
                    has1 == ty1 \in DOMAIN mid.set_map
                    has2 == ty2 \in DOMAIN mid.set_map
                IN  /\ post.panic = "none"
                    /\ (has1 /\ has2 /\ mid.set_map[ty1] # mid.set_map[ty2]) =>
                           LET r1 == mid.set_map[ty1]
                               r2 == mid.set_map[ty2]
                           IN  /\ Len(post.sets) = Len(mid.sets)
                               /\ \E survivor \in {r1, r2} :
                                      LET absorbed == IF survivor = r1 THEN r2 ELSE r1
                                      IN  /\ post.sets[survivor] = mid.sets[r1] \cup mid.sets[r2]
                                          /\ post.sets[absorbed] = {}
                                          /\ \A ty \in mid.sets[absorbed] :
                                                 post.set_map[ty] = survivor
                    /\ (has1 /\ ~has2) =>
                           /\ Len(post.sets) = Len(mid.sets)
                           /\ post.sets[mid.set_map[ty1]] = mid.sets[mid.set_map[ty1]] \cup {ty2}
                           /\ post.set_map[ty2] = mid.set_map[ty1]
                    /\ (has2 /\ ~has1) =>
                           /\ Len(post.sets) = Len(mid.sets)
                           /\ post.sets[mid.set_map[ty2]] = mid.sets[mid.set_map[ty2]] \cup {ty1}
                           /\ post.set_map[ty1] = mid.set_map[ty2]
                    /\ (~has1 /\ ~has2) =>
                           /\ Len(post.sets) = Len(mid.sets) + 1
                           /\ post.sets[Len(post.sets)] = {ty1, ty2}
                           /\ post.set_map[ty1] = Len(post.sets)
                           /\ post.set_map[ty2] = Len(post.sets)

\* a call has merged two sets: one handle is left empty, the other holds
\* the union
C4_Witness ==
    /\ panic = "none"
    /\ last.op = "insert_as_equal_to"
    /\ last.case = "merged"
    /\ \E h1, h2 \in DOMAIN sets : sets[h1] = {} /\ Cardinality(sets[h2]) >= 2

\* C5: a call with a trait object on exactly one side adds the constraint
\* that bounds the other argument by the bounds of the trait object, and
\* leaves set_map and every set as they were.
C5_ConstraintOnly ==
    Unifying =>
        \A ty1, ty2 \in family :
            (ty1.k = "TraitObject") # (ty2.k = "TraitObject") =>
                LET post    == insert_as_equal_to(Solver, ty1, ty2)
                    object  == IF ty1.k = "TraitObject" THEN ty1 ELSE ty2
                    bounded == IF ty1.k = "TraitObject" THEN ty2 ELSE ty1
                IN  /\ post.panic = "none"
                    /\ post.constraints = constraints \cup {PredicateType(bounded, object.args)}
                    /\ post.set_map = set_map
                    /\ post.sets = sets

\* a call has emitted a constraint
C5_Witness ==
    /\ panic = "none"
    /\ last.op = "insert_as_equal_to"
    /\ last.case = "constraint"
    /\ \E c \in constraints : c.bounded_ty.k = "TypeParam"

\* the types that occur in a type: the type and what it is built from
RECURSIVE Occurring(_)
RECURSIVE OccurringIn(_, _)
OccurringIn(types, i) ==
    IF i > Len(types) THEN {} ELSE Occurring(types[i]) \cup OccurringIn(types, i + 1)

RECURSIVE OccurringInSegments(_, _)
OccurringInSegments(segments, i) ==
    IF i > Len(segments) THEN {}
    ELSE OccurringIn(segments[i].args, 1) \cup OccurringInSegments(segments, i + 1)

Occurring(ty) ==
    {ty} \cup OccurringIn(ty.args, 1) \cup OccurringInSegments(ty.path, 1)

\* a reference and a mutable reference, in either order
ReferencePair(ty1, ty2) ==
    \/ ty1.k = "Reference" /\ ty2.k = "ReferenceMut"
    \/ ty1.k = "ReferenceMut" /\ ty2.k = "Reference"

\* a type is in no set and has no entry
Unobserved(st, ty) ==
    /\ ty \notin DOMAIN st.set_map
    /\ \A h \in DOMAIN st.sets : ty \notin st.sets[h]

\* C6 as stated: the call does what insert_as_equal_to on the payloads
\* does, and neither reference type is added to a set by it.
C6_ReferencesNeverAdded ==
    Unifying =>
        \A ty1, ty2 \in family :
            ReferencePair(ty1, ty2) =>
                LET post == insert_as_equal_to(Solver, ty1, ty2)
                IN  /\ post = insert_as_equal_to(Solver, ty1.args[1], ty2.args[1])
                    /\ \A ref \in {ty1, ty2} : Unobserved(Solver, ref) => Unobserved(post, ref)

\* C6 as amended: the call does what insert_as_equal_to on the payloads
\* does and nothing else; a reference type of the pair is added to a set
\* only if it occurs in one of the payloads.
C6_PayloadsOnly ==
    Unifying =>
        \A ty1, ty2 \in family :
            ReferencePair(ty1, ty2) =>
                LET post == insert_as_equal_to(Solver, ty1, ty2)
                IN  /\ post = insert_as_equal_to(Solver, ty1.args[1], ty2.args[1])
                    /\ \A ref \in {ty1, ty2} :
                           /\ Unobserved(Solver, ref)
                           /\ ref \notin Occurring(ty1.args[1]) \cup Occurring(ty2.args[1])
                           => Unobserved(post, ref)

\* a call on a reference and a mutable reference has unified the payloads
C6_Witness ==
    /\ panic = "none"
    /\ last.op = "insert_as_equal_to"
    /\ last.case = "reference_pair"
    /\ \E h \in DOMAIN sets : \E ty \in sets[h] : ty.k = "TypeParam"

\* the generic arguments of the final segment of a path are types, and
\* the segment is not written with parentheses
TypeArgumentsOnly(path) ==
    /\ LastSegment(path).ak \in {"None", "AngleBracketed"}
    /\ \A i \in DOMAIN LastSegment(path).args : LastSegment(path).args[i].k # "Lifetime"

\* insert_as_equal_to on the first pair of arguments, then on the second,
\* and so on from i
RECURSIVE UnifyInOrder(_, _, _, _)
UnifyInOrder(st, args1, args2, i) ==
    IF i > Len(args1) \/ st.panic # "none" THEN st
    ELSE UnifyInOrder(insert_as_equal_to(st, args1[i], args2[i]), args1, args2, i + 1)

\* C7: a call on two paths whose final segments have the same number of
\* generic arguments unifies the arguments pairwise in declared order and
\* then records the equality of the paths; when the numbers differ the call
\* does nothing but record the equality of the two paths.
C7_PathArguments ==
    Unifying =>
        \A path1, path2 \in family :
            /\ path1.k = "Path"
            /\ path2.k = "Path"
            /\ TypeArgumentsOnly(path1)
            /\ TypeArgumentsOnly(path2)
            => LET post == insert_as_equal_to(Solver, path1, path2)
                   mid  == UnifyInOrder(Solver, LastSegment(path1).args,
                                        LastSegment(path2).args, 1)
               IN  IF ArgumentCount(path1) = ArgumentCount(path2)
                   THEN post = IF mid.panic # "none" THEN mid
                               ELSE RecordEquality(mid, path1, path2)
                   ELSE /\ post = RecordEquality(Solver, path1, path2)
                        /\ post.constraints = constraints
                        /\ \A ty \in (OccurringInSegments(path1.path, 1)
                                      \cup OccurringInSegments(path2.path, 1))
                                     \ {path1, path2} :
                               Unobserved(Solver, ty) => Unobserved(post, ty)

\* a call on two paths with the same number of arguments has put two
\* generic variables, arguments at the same position, in one set
C7_Witness ==
    /\ panic = "none"
    /\ last.op = "insert_as_equal_to"
    /\ last.shape = "paths_same_count"
    /\ \E h \in DOMAIN sets : {T, U} \subseteq sets[h]

\* the immediate components of a type: tuple elements, the payload of a
\* reference, the generic arguments of the final segment of a path
Components(ty) ==
    IF ty.k = "Path" THEN {LastSegment(ty).args[i] : i \in DOMAIN LastSegment(ty).args}
    ELSE IF ty.k \in {"Tuple", "Reference", "ReferenceMut"}
    THEN {ty.args[i] : i \in DOMAIN ty.args}
    ELSE {}

\* C8: from every reachable partition, for every handle and every order of
\* iteration, TypeEqualitySetRef::make_most_concrete comes to an end: the
\* calls never nest deeper than there are handles, plus one call that finds
\* the placeholder.
C8_Terminates ==
    /\ panic # "diverged"
    /\ \A h \in DOMAIN sets : \A order \in IterationOrders :
           make_most_concrete(h, Env(order), EmptyCache, 1).cx.panic # "diverged"

\* the most concrete type of a set has been computed, and a member of that
\* set has a component that is mapped to the same set
C8_Witness ==
    /\ panic = "none"
    /\ last.op = "make_most_concrete"
    /\ last.case = "computed"
    /\ \E ty \in sets[last.set_ref] : \E inner \in Components(ty) :
           /\ inner \in sets[last.set_ref]
           /\ inner \in DOMAIN set_map
           /\ set_map[inner] = last.set_ref
    /\ Infer \in Occurring(last.node)

\* C9: after insert_as_equal_to(Wrapper<T>, T) and then insert_as_equal_to
\* on the same two types, in either order, make_most_concrete for the set
\* of T returns a type, and the same type whatever the order in which the
\* set is iterated.
C9_ReturnsApproximation ==
    LET wrapper == Generic("Wrapper", <<T>>)
        most_concrete(order) == make_most_concrete(set_map[T], Env(order), EmptyCache, 1)
    IN  /\ Len(log) = 2
        /\ log[1] = <<wrapper, T>>
        /\ log[2] \in {<<T, wrapper>>, <<wrapper, T>>}
        /\ panic = "none"
        => /\ \A order \in IterationOrders : most_concrete(order).cx.panic = "none"
           /\ \A order1, order2 \in IterationOrders :
                  most_concrete(order1).node = most_concrete(order2).node

\* the aborts that stand for an input the solver does not support
Unsupported == {"incompatible types", "unimplemented"}

\* C10: for a set with one member, make_most_concrete returns that member
\* with its outer shape kept: a generic variable or str as it is, and a
\* tuple, a reference or a path with each component replaced by what
\* TypeNode::make_most_concrete returns for it (the component itself when it
\* has no set).
C10_SingletonKeepsShape ==
    \A h \in DOMAIN sets : \A order \in IterationOrders :
        Cardinality(sets[h]) = 1 =>
            LET ty  == order[h][1]
                env == Env(order)
                r   == make_most_concrete(h, env, EmptyCache, 1)
                cx1 == CacheInsert(EmptyCache, h, Infer)
            IN  /\ r.cx.panic \in {"none"} \cup Unsupported
                /\ r.cx.panic = "none" =>
                       /\ r.node.k = ty.k
                       /\ r.node.id = ty.id
                       /\ r.node.global = ty.global
                       /\ Len(r.node.args) = Len(ty.args)
                       /\ Len(r.node.path) = Len(ty.path)
                       /\ \A i \in DOMAIN ty.path :
                              /\ r.node.path[i].ident = ty.path[i].ident
                              /\ r.node.path[i].ak = ty.path[i].ak
                              /\ Len(r.node.path[i].args) = Len(ty.path[i].args)
                              /\ i < Len(ty.path) => r.node.path[i] = ty.path[i]
                       /\ ty.k \in {"TypeParam", "PrimitiveStr"} => r.node = ty
                       /\ ty.k \in {"Tuple", "Reference", "ReferenceMut"} =>
                              /\ r.node.args = EachMostConcrete(ty.args, 1, <<>>, env, cx1, 1).node
                              /\ \A i \in DOMAIN ty.args :
                                     ty.args[i] \notin DOMAIN set_map =>
                                         r.node.args[i] = ty.args[i]
                       /\ ty.k = "Path" =>
                              \A i \in DOMAIN LastSegment(ty).args :
                                  LastSegment(ty).args[i] \notin DOMAIN set_map =>
                                      LastSegment(r.node).args[i] = LastSegment(ty).args[i]

\* a set whose two members are paths with a different, positive number of
\* type arguments: an alias path and the path it stands for
AliasPair(h, short, long) ==
    /\ sets[h] = {short, long}
    /\ short.k = "Path" /\ long.k = "Path"
    /\ LastSegment(short).ak = "AngleBracketed"
    /\ LastSegment(long).ak = "AngleBracketed"
    /\ TypeArgumentsOnly(short) /\ TypeArgumentsOnly(long)
    /\ ArgumentCount(short) < ArgumentCount(long)
    /\ set_map[short] = h /\ set_map[long] = h

\* C11: for a set that holds a path and an alias path with fewer arguments,
\* make_most_concrete returns the alias path, with each argument replaced by
\* what TypeNode::make_most_concrete gives for it; never the placeholder.
C11_AliasPathWins ==
    \A h \in DOMAIN sets : \A order \in IterationOrders : \A short, long \in sets[h] :
        AliasPair(h, short, long) =>
            LET env == Env(order)
                r   == make_most_concrete(h, env, EmptyCache, 1)
                cx1 == CacheInsert(EmptyCache, h, Infer)
                arguments == EachArgumentMostConcrete(LastSegment(short).args, 1, <<>>,
                                                      env, cx1, 1)
            IN  arguments.cx.panic = "none" =>
                    /\ r.cx.panic = "none"
                    /\ r.node # Infer
                    /\ r.node = WithArguments(short, arguments.node)

\* the most concrete type of a set, computed with an empty cache
MostConcrete(h, order) == make_most_concrete(h, Env(order), EmptyCache, 1)

\* C12: every generic variable that occurs in the type make_most_concrete
\* returns for a set is the most concrete type of its own set.
C12_FullyResolved ==
    \A h \in DOMAIN sets : \A order \in IterationOrders :
        LET r == MostConcrete(h, order)
        IN  r.cx.panic = "none" =>
                \A ty \in Occurring(r.node) :
                    ty.k = "TypeParam" /\ ty \in DOMAIN set_map =>
                        LET own == MostConcrete(set_map[ty], order)
                        IN  own.cx.panic = "none" => own.node = ty

\* what a caller sees of a synthesis: the abort, or the type returned
Outcome(r) == IF r.cx.panic # "none" THEN <<"abort">> ELSE <<"returned", r.node>>

\* C13: with an empty cache the outcome of make_most_concrete for a set does
\* not depend on the order in which the sets are iterated, and a set of
\* generic variables gives the variable with the lowest identity.
C13_Deterministic ==
    \A h \in DOMAIN sets :
        /\ \A order1, order2 \in IterationOrders :
               Outcome(MostConcrete(h, order1)) = Outcome(MostConcrete(h, order2))
        /\ (sets[h] # {} /\ \A ty \in sets[h] : ty.k = "TypeParam" /\ set_map[ty] = h) =>
               \A order \in IterationOrders :
                   LET r == MostConcrete(h, order)
                   IN  /\ r.cx.panic = "none"
                       /\ r.node \in sets[h]
                       /\ \A ty \in sets[h] : r.node.id <= ty.id

(***************************************************************************)
(* Properties of the pass over an implementation.                          *)
(***************************************************************************)
\* a type in which no generic variable and no placeholder occurs
FullyConcrete(ty) == \A x \in Occurring(ty) : x.k \notin {"TypeParam", "Infer"}

\* a constraint v: Trait + .. on a generic variable v, whose bounds are
\* traits without generic arguments
PlainBound(c) ==
    /\ c.kind = "Type"
    /\ c.bounded_ty.k = "TypeParam"
    /\ \A i \in DOMAIN c.bounds :
           /\ c.bounds[i].k = "TraitBound"
           /\ \A j \in DOMAIN c.bounds[i].path : c.bounds[i].path[j].ak = "None"

\* the types that were unified with ty
Unified(ty) == {x \in DOMAIN set_map : set_map[x] = set_map[ty]}

\* C14: once compute_trait_bounds has returned, an accumulated constraint
\* v: Bound on a generic variable v (Bound a trait without arguments) has no
\* form in the returned set when the set of v resolved to a type without
\* generic variables: no returned constraint is on v or on that type.  When
\* v is a declared generic parameter unified with generic variables only, and
\* the input is supported, the pass returns and a constraint with the bounds
\* of v: Bound on a variable of the set of v is in the returned set.
C14_RelevanceFiltering ==
    phase = "returned" =>
        \A c \in constraints :
            PlainBound(c) /\ c.bounded_ty \in DOMAIN set_map =>
                LET v == c.bounded_ty
                    h == set_map[v]
                IN  /\ (h \in DOMAIN most_concrete_type_map
                           /\ FullyConcrete(most_concrete_type_map[h])) =>
                           \A r \in returned :
                               r.kind = "Type" =>
                                   r.bounded_ty \notin {v, most_concrete_type_map[h]}
                    /\ (/\ panic \notin Unsupported
                        /\ v \in generic_params
                        /\ \A x \in Unified(v) : x.k = "TypeParam") =>
                           /\ panic = "none"
                           /\ \E r \in returned :
                                  /\ r.kind = "Type"
                                  /\ r.bounds = c.bounds
                                  /\ r.bounded_ty \in Unified(v)

\* the most concrete form of an accumulated constraint, read from the cache
\* that compute_trait_bounds has filled (no set is iterated again)
MostConcreteForm(c) ==
    constraint_make_most_concrete(c, [set_map |-> set_map, sets |-> sets,
                                      order |-> [h \in DOMAIN sets |-> <<>>]],
                                  [map |-> most_concrete_type_map, panic |-> "none"]).node

\* the types in the positions that the filter judges: the bounded type and
\* the type arguments of the bounds
JudgedPositions(c) ==
    {c.bounded_ty} \cup
    {c.bounds[i].path[j].args[n] :
        <<i, j, n>> \in {x \in (DOMAIN c.bounds) \X (0..2) \X (0..2) :
                            /\ x[2] \in DOMAIN c.bounds[x[1]].path
                            /\ x[3] \in DOMAIN c.bounds[x[1]].path[x[2]].args
                            /\ c.bounds[x[1]].path[x[2]].args[x[3]].k # "Lifetime"}}

\* the generic variables of a set that generic_param_set_refs returned
RelevantVariable(ty) ==
    ty.k = "TypeParam" /\ ty \in DOMAIN set_map /\ set_map[ty] \in relevant_generic_params

\* what a chain of references refers to
RECURSIVE Referent(_)
Referent(ty) ==
    IF ty.k \in {"Reference", "ReferenceMut"} THEN Referent(ty.args[1]) ELSE ty

\* C15 as stated: once compute_trait_bounds has returned, the most concrete
\* form of an accumulated type constraint is judged relevant exactly when
\* every generic variable that occurs in its bounded type and in the
\* arguments of its bounds is in a relevant set and none of these positions
\* holds a type without generic variables.
C15_RelevantIffVariablesRelevant ==
    phase = "returned" /\ panic = "none" =>
        \A c \in constraints :
            c.kind = "Type" =>
                LET most_concrete == MostConcreteForm(c)
                IN  (is_relevant(most_concrete, set_map, relevant_generic_params) = "true")
                    <=> \A ty \in JudgedPositions(most_concrete) :
                            /\ ~FullyConcrete(ty)
                            /\ \A x \in Occurring(ty) : x.k = "TypeParam" => RelevantVariable(x)

\* C15, amended: the most concrete form of an accumulated type constraint is
\* judged relevant exactly when its bounded type and every type argument of
\* its bounds is a generic variable of a relevant set, or a reference (of any
\* depth) to one; and the constraints that are returned are the forms so
\* judged.
C15_RelevantIffPositionsAreVariables ==
    phase = "returned" /\ panic = "none" =>
        \A c \in constraints :
            c.kind = "Type" =>
                LET most_concrete == MostConcreteForm(c)
                    judged == is_relevant(most_concrete, set_map, relevant_generic_params)
                IN  /\ (judged = "true")
                           <=> \A ty \in JudgedPositions(most_concrete) :
                                   RelevantVariable(Referent(ty))
                    /\ (judged = "true") <=> (most_concrete \in returned)

\* the pass judged T: Into<T> relevant and (T,): Clone, a tuple of the
\* relevant T, not relevant
C15_Witness ==
    /\ phase = "returned"
    /\ panic = "none"
    /\ \E c \in constraints :
           /\ c.kind = "Type"
           /\ MostConcreteForm(c) \in returned
           /\ \E i \in DOMAIN c.bounds : LastSegment(c.bounds[i]).args # <<>>
    /\ \E c \in constraints :
           /\ c.kind = "Type"
           /\ MostConcreteForm(c) \notin returned
           /\ MostConcreteForm(c).bounded_ty.k = "Tuple"
           /\ \A x \in Occurring(MostConcreteForm(c).bounded_ty) :
                  x.k = "TypeParam" => RelevantVariable(x)

\* an invocation with a by-mutable-reference receiver, whose parent is
\* S<t> and whose first argument is &mut S<x>, x a named type without
\* arguments
MutableReceiver(invoke, t, x) ==
    /\ invoke.receiver = "SelfByReferenceMut"
    /\ invoke.parent = Generic("S", <<t>>)
    /\ t.k = "TypeParam"
    /\ Len(invoke.args) > 0
    /\ invoke.args[1] = ReferenceMut(Generic("S", <<x>>))
    /\ x.k = "Path"
    /\ LastSegment(x).ak = "None"

\* the named types that stand as arguments of the first argument of the
\* invocations
NamedArguments == {Simple("String")}

\* C16: when an invocation with a by-mutable-reference receiver of parent
\* S<T> and first argument &mut S<X>, X a concrete named type, was
\* processed, T was unified with nothing but X and generic variables, and
\* the input is supported, then compute_trait_bounds returns, T and X are
\* members of one set, make_most_concrete of that set is X, and no returned
\* constraint has T as bounded type.
C16_ReceiverUnified ==
    phase = "returned" =>
        \A i \in DOMAIN log : \A x \in NamedArguments :
            (/\ MutableReceiver(log[i], T, x)
             /\ panic \notin Unsupported
             /\ \A y \in Unified(T) : y = x \/ y.k = "TypeParam") =>
                /\ panic = "none"
                /\ set_map[T] = set_map[x]
                /\ {T, x} \subseteq sets[set_map[T]]
                /\ \A order \in IterationOrders :
                       MostConcrete(set_map[T], order) = Ret(x, CacheInsert(EmptyCache, set_map[T], x))
                /\ most_concrete_type_map[set_map[T]] = x
                /\ \A r \in returned : r.kind = "Type" => r.bounded_ty # T

\* the pairs of types that an invocation has unified: the receiver with the
\* first argument, and every input with its argument
UnifiedPairs(invoke) ==
    LET self == IF invoke.receiver = "NoSelf" THEN 0 ELSE 1
    IN  {<<invoke.inputs[i], invoke.args[i + self]>> : i \in DOMAIN invoke.inputs}
        \cup (IF self = 0 THEN {}
              ELSE {<<IF invoke.receiver = "SelfByReference" THEN Reference(invoke.parent)
                      ELSE IF invoke.receiver = "SelfByReferenceMut"
                      THEN ReferenceMut(invoke.parent)
                      ELSE invoke.parent,
                      invoke.args[1]>>})

\* the conformance constraints of the pairs of a trait object and a type
\* that is none
Conformance(invoke) ==
    {PredicateType(pair[2], pair[1].args) :
        pair \in {p \in UnifiedPairs(invoke) : p[1].k = "TraitObject" /\ p[2].k # "TraitObject"}}
    \cup {PredicateType(pair[1], pair[2].args) :
        pair \in {p \in UnifiedPairs(invoke) : p[1].k # "TraitObject" /\ p[2].k = "TraitObject"}}

\* the most concrete forms of the accumulated constraints that are judged
\* relevant
RelevantForms ==
    {MostConcreteForm(c) :
        c \in {x \in constraints :
                  is_relevant(MostConcreteForm(x), set_map, relevant_generic_params) = "true"}}

\* the constraints that the invocations processed so far have added
Accumulated ==
    UNION {log[i].parent_constraints \cup log[i].sig_constraints \cup Conformance(log[i]) :
              i \in DOMAIN log}

\* C17: the accumulated constraints are those declared on the generics of
\* the implementation and of its trait, with the constraints of the
\* generics of the parent and of the function of every processed invocation
\* and the conformance constraints of its trait-object pairs; nothing is
\* synthesized or filtered while invocations are processed; and when
\* compute_trait_bounds returns, it returns exactly the set of the most
\* concrete forms of the accumulated constraints that are judged relevant.
C17_ReturnsRelevantForms ==
    /\ phase = "unify" =>
           most_concrete_type_map = <<>> /\ relevant_generic_params = {} /\ returned = {}
    /\ (panic = "none" \/ phase = "returned") =>
           constraints = generic_constraints \cup Accumulated
    /\ (panic = "none" /\ phase = "returned") =>
           /\ calls = Len(log)
           /\ returned = RelevantForms

\* a pass over two invocations, one of which emitted a conformance
\* constraint, has returned a constraint and dropped another
C17_Witness ==
    /\ phase = "returned"
    /\ panic = "none"
    /\ Len(log) = 2
    /\ \E i \in DOMAIN log : Conformance(log[i]) # {} /\ Conformance(log[i]) \subseteq constraints
    /\ returned # {}
    /\ \E c \in constraints : MostConcreteForm(c) \notin returned

(***************************************************************************)
(* Properties of the cache of most concrete types.                         *)
(***************************************************************************)
\* the cache of the pass, as the synthesis threads it
CacheOfPass == [map |-> most_concrete_type_map, panic |-> "none"]

\* what C18 says of a call that could be made next, whatever the handle and
\* the order of iteration
C18_NextCall ==
    panic = "none" =>
        \A h \in DOMAIN sets : \A order \in IterationOrders :
            LET r       == make_most_concrete(h, Env(order), CacheOfPass, 1)
                pending == CacheInsert(CacheOfPass, h, Infer)
            IN  /\ h \notin DOMAIN most_concrete_type_map =>
                       /\ make_most_concrete(h, Env(order), pending, 2) = Ret(Infer, pending)
                       /\ h \in DOMAIN r.cx.map
                       /\ r.cx.panic # "none" => r.cx.map[h] = Infer
                /\ r.cx.panic = "none" =>
                       /\ r.cx.map[h] = r.node
                       /\ \A later \in IterationOrders :
                              make_most_concrete(h, Env(later), r.cx, 1) = Ret(r.node, r.cx)

\* what C18 says of a call that the pass makes
C18_Call ==
    last'.op = "make_most_concrete" =>
        LET h == last'.set_ref
        IN  /\ \A g \in DOMAIN most_concrete_type_map :
                   /\ g \in DOMAIN most_concrete_type_map'
                   /\ most_concrete_type_map'[g] = most_concrete_type_map[g]
            /\ h \in DOMAIN most_concrete_type_map =>
                   /\ last'.node = most_concrete_type_map[h]
                   /\ most_concrete_type_map' = most_concrete_type_map
                   /\ panic' = "none"
            /\ (h \notin DOMAIN most_concrete_type_map /\ panic' = "none") =>
                   most_concrete_type_map'[h] = last'.node

\* C18: a make_most_concrete call that misses the cache sets the entry of its
\* handle to the placeholder, so that a nested call for the handle returns
\* the placeholder; when the call returns v, the entry holds v; from then on
\* every call for the handle returns v and leaves the cache as it is.
C18_CacheProtocol == [](C18_NextCall) /\ [][C18_Call]_vars

\* a second call for a handle has returned the cached type, in which the
\* placeholder of a nested call for the same handle stands
C18_Witness ==
    /\ panic = "none"
    /\ last.op = "make_most_concrete"
    /\ last.case = "cached"
    /\ most_concrete_type_map[last.set_ref] = last.node
    /\ last.node # Infer
    /\ Infer \in Occurring(last.node)

(***************************************************************************)
(* Properties of the pairwise rule.                                        *)
(***************************************************************************)
\* the types a fold may pair: the types of the pass, and the placeholder
Pairable == family \cup {Infer}

\* make_most_concrete_from_pair with an empty cache
FromPair(ty1, ty2, order) == make_most_concrete_from_pair(ty1, ty2, Env(order), EmptyCache, 1)

\* the pairings that none of the listed rules covers, read literally
OutsideListedRules(ty1, ty2) ==
    /\ {ty1.k, ty2.k} \cap {"Infer", "PrimitiveStr", "TraitObject"} = {}
    /\ ~(ty1.k = "Path" /\ ty2.k = "Path")
    /\ ~(ty1.k = "Tuple" /\ ty2.k = "Tuple")
    /\ ~(ty1.k = "Reference" /\ ty2.k = "Reference")
    /\ ~(ty1.k = "ReferenceMut" /\ ty2.k = "ReferenceMut")
    /\ ~(ty1.k = "TypeParam" /\ ty2.k = "TypeParam")

\* C19 as stated: make_most_concrete_from_pair aborts for every pair of types
\* of which neither is the placeholder, str or a trait object and that are
\* not two paths, two tuples, two references of one mutability or two
\* generic variables.
C19_FatalOutsideListedRules ==
    \A ty1, ty2 \in Pairable : \A order \in IterationOrders :
        OutsideListedRules(ty1, ty2) =>
            FromPair(ty1, ty2, order).cx.panic = "incompatible types"

\* C19, amended: a path paired with a type that is no path, not the
\* placeholder and not str gives the path with its arguments made most
\* concrete; the call aborts at once for every pair of types of which
\* neither is the placeholder, str, a trait object or a path and that are
\* not two tuples of one length, two references of one mutability or two
\* generic variables.
C19_FatalOutsideRules ==
    \A ty1, ty2 \in Pairable : \A order \in IterationOrders :
        /\ (/\ {ty1.k, ty2.k} \cap {"Infer", "PrimitiveStr"} = {}
            /\ ty1.k = "Path" /\ ty2.k # "Path") =>
               FromPair(ty1, ty2, order)
                   = path_make_most_concrete_inner(ty1, Env(order), EmptyCache, 1)
        /\ (/\ {ty1.k, ty2.k} \cap {"Infer", "PrimitiveStr"} = {}
            /\ ty1.k # "Path" /\ ty2.k = "Path") =>
               FromPair(ty1, ty2, order)
                   = path_make_most_concrete_inner(ty2, Env(order), EmptyCache, 1)
        /\ (/\ {ty1.k, ty2.k} \cap {"Infer", "PrimitiveStr", "TraitObject", "Path"} = {}
            /\ ~(ty1.k = "Tuple" /\ ty2.k = "Tuple" /\ Len(ty1.args) = Len(ty2.args))
            /\ ~(ty1.k = "Reference" /\ ty2.k = "Reference")
            /\ ~(ty1.k = "ReferenceMut" /\ ty2.k = "ReferenceMut")
            /\ ~(ty1.k = "TypeParam" /\ ty2.k = "TypeParam")) =>
               FromPair(ty1, ty2, order) = Fail(EmptyCache, "incompatible types")

\* a fold has aborted on a pair that no rule covers: the set it folded holds
\* two tuples of different lengths, or a generic variable and a tuple or
\* a reference
C19_Witness ==
    /\ last.op = "make_most_concrete"
    /\ panic = "incompatible types"
    /\ \E ty1, ty2 \in sets[last.set_ref] :
           /\ ty1.k \in {"Tuple", "TypeParam"}
           /\ ty2.k \in {"Tuple", "Reference"}
           /\ ty1 # ty2
           /\ \A order \in IterationOrders :
                  FromPair(ty1, ty2, order) = Fail(EmptyCache, "incompatible types")

(***************************************************************************)
(* Properties of the unification of trait objects.                         *)
(***************************************************************************)
\* the generic arguments of the bounds at the same position unified in
\* order, from the position i on, when the two bounds have the same number
\* of them
RECURSIVE UnifyBoundsInOrder(_, _, _, _)
UnifyBoundsInOrder(st, bounds1, bounds2, i) ==
    IF i > Len(bounds1) \/ st.panic # "none" THEN st
    ELSE UnifyBoundsInOrder(IF ArgumentCount(bounds1[i]) = ArgumentCount(bounds2[i])
                            THEN UnifyInOrder(st, LastSegment(bounds1[i]).args,
                                              LastSegment(bounds2[i]).args, 1)
                            ELSE st,
                            bounds1, bounds2, i + 1)

\* C20: a call on two trait objects with different numbers of bounds aborts
\* and leaves set_map, sets and the constraints as they were; a call on two
\* trait objects with the same number of bounds unifies, position by
\* position, the generic arguments of the two bounds, and does nothing else:
\* the trait objects themselves enter no set.
C20_TraitObjects ==
    Unifying =>
        \A ty1, ty2 \in family :
            (ty1.k = "TraitObject" /\ ty2.k = "TraitObject") =>
                LET post == insert_as_equal_to(Solver, ty1, ty2)
                IN  IF Len(ty1.args) # Len(ty2.args)
                    THEN /\ post.panic # "none"
                         /\ post.set_map = set_map
                         /\ post.sets = sets
                         /\ post.constraints = constraints
                    ELSE /\ post = UnifyBoundsInOrder(Solver, ty1.args, ty2.args, 1)
                         /\ \A ty \in {ty1, ty2} : Unobserved(Solver, ty) => Unobserved(post, ty)

\* a first call, on dyn Into<T> and dyn Into<U>, has put T and U in one set;
\* the two trait objects are in none
C20_Witness ==
    /\ panic = "none"
    /\ calls = 1
    /\ last.op = "insert_as_equal_to"
    /\ last.case = "trait_objects"
    /\ \E h \in DOMAIN sets : {T, U} \subseteq sets[h]
    /\ Unobserved(Solver, DynInto(T))
    /\ Unobserved(Solver, DynInto(U))

(***************************************************************************)
(* Properties of the processing of one invocation.                         *)
(***************************************************************************)
\* the invocations of the implementation, and each of them with its first
\* argument left out or with one argument more
ArityCases ==
    Invocations
    \cup {[invoke EXCEPT !.args = Tail(@)] : invoke \in {i \in Invocations : i.args # <<>>}}
    \cup {[invoke EXCEPT !.args = Append(@, PrimitiveStr)] : invoke \in Invocations}

\* the number of arguments that the signature of an invocation asks for
Arity(invoke) == Len(invoke.inputs) + (IF invoke.receiver = "NoSelf" THEN 0 ELSE 1)

\* C21: an invocation whose number of recorded arguments is not the number
\* of declared parameters, plus one when there is a receiver, aborts the pass
\* with set_map, sets and the constraints as they were: nothing was unified.
\* An invocation with the right number of arguments does not fail that
\* check.
C21_ArityChecked ==
    Unifying =>
        \A invoke \in ArityCases :
            LET post == invoke_compute_trait_bounds(Solver, invoke)
            IN  IF Len(invoke.args) # Arity(invoke)
                THEN post = Panic(Solver, "assertion failed")
                ELSE post.panic # "assertion failed"

\* the second invocation of a pass had no argument for its one parameter,
\* and the pass aborted with the sets of the first invocation
C21_Witness ==
    /\ panic = "assertion failed"
    /\ Len(log) = 2
    /\ Len(log[2].args) # Arity(log[2])
    /\ Len(log[1].args) = Arity(log[1])
    /\ sets # <<>>
    /\ Solver = Panic(invoke_compute_trait_bounds(
                           [EmptySolver EXCEPT !.constraints = generic_constraints], log[1]),
                       "assertion failed")

(***************************************************************************)
(* Properties of the values and of the thread-local data.                  *)
(***************************************************************************)
\* the type get_type is to derive for a value whose parts have the types
\* `parts`, NoType where the variant has no rule
TypeByVariant(node, parts) ==
    CASE node.v = "Tuple" -> Tuple(parts)
      [] node.v = "Str" -> PrimitiveStr
      [] node.v = "Reference" -> IF node.is_mut THEN ReferenceMut(parts[1]) ELSE Reference(parts[1])
      [] node.v \in {"Binding", "Destructure"} -> node.ty
      [] node.v = "Invoke" -> INVOKES[node.refs[1]].output
      [] OTHER -> Infer

\* C22: get_type derives a type for every value of the arena, whatever its
\* variant: for a tuple the tuple of the types of its components, for a
\* string the string-literal type, for a reference a reference to the type
\* of its referent, for a binding or a destructure the declared type, for an
\* invocation the output of the invoked function, and some type for a
\* dereference, a data structure and a macro invocation.
C22_TypeOfEveryVariant ==
    \A ref \in DOMAIN VALUES :
        LET node == VALUES[ref]
            derived == get_type(VALUES, INVOKES, ref)
        IN  /\ derived.panic = "none"
            /\ node.v \in {"Tuple", "Str", "Reference", "Binding", "Destructure", "Invoke"} =>
                   derived.ty = TypeByVariant(node,
                       [i \in DOMAIN node.refs |-> get_type(VALUES, INVOKES, node.refs[i]).ty])

\* the identities a counter has issued, in the order of the calls
IssuedBy(counter) == SelectSeq(issued, LAMBDA call : call[1] = counter)

\* C26: the identities of a counter never repeat.  Successive count() calls
\* on one counter return strictly increasing identities, whatever calls of
\* clear() lie between them; clear() empties the value, invocation and macro
\* arenas and leaves both counters where they were; the lifetime counter
\* never issues 0, the identity of the static lifetime.
C26_IdentitiesNeverRepeat ==
    /\ \A counter \in {"TYPE_PARAMS", "LIFETIMES"} :
           \A i \in DOMAIN IssuedBy(counter) : \A j \in DOMAIN IssuedBy(counter) :
               i < j => IssuedBy(counter)[i][2] < IssuedBy(counter)[j][2]
    /\ TYPE_PARAMS = Len(IssuedBy("TYPE_PARAMS"))
    /\ LIFETIMES = 1 + Len(IssuedBy("LIFETIMES"))
    /\ clear(GlobalData) = [VALUES |-> <<>>, INVOKES |-> <<>>, MACROS |-> <<>>,
                             TYPE_PARAMS |-> TYPE_PARAMS, LIFETIMES |-> LIFETIMES]
    /\ \A i \in DOMAIN issued : issued[i][1] = "LIFETIMES" => issued[i][2] # 0

\* both counters have issued an identity before a clear() and another one
\* after it, and a value has been pushed since
C26_Witness ==
    \E c \in DOMAIN issued :
        /\ issued[c] = <<"clear", 0>>
        /\ \A counter \in {"TYPE_PARAMS", "LIFETIMES"} :
               /\ \E i \in 1..(c - 1) : issued[i][1] = counter
               /\ \E i \in (c + 1)..Len(issued) : issued[i][1] = counter
        /\ TYPE_PARAMS = 2 /\ LIFETIMES = 3
        /\ VALUES # <<>>

\* two types of different shapes, neither of them a trait object, that are
\* not a reference paired with a mutable reference
DifferentShapes(ty1, ty2) ==
    /\ ty1.k # ty2.k
    /\ "TraitObject" \notin {ty1.k, ty2.k}
    /\ {ty1.k, ty2.k} # {"Reference", "ReferenceMut"}

\* the members of the set of ty in st, none when ty has not been observed
MembersWith(st, ty) == IF ty \in DOMAIN st.set_map THEN ClassOf(st, ty) ELSE {}

\* C23: insert_as_equal_to on two types of different shapes (no trait
\* object, no reference paired with a mutable reference) adds no constraint
\* and unifies no component: afterwards the two types are members of one
\* set that holds what their sets held before, and every other observed
\* type is in the set it was in.
C23_MismatchedShapes ==
    Unifying =>
        \A ty1, ty2 \in family :
            DifferentShapes(ty1, ty2) =>
                LET post == insert_as_equal_to(Solver, ty1, ty2)
                    joined == MembersWith(Solver, ty1) \cup MembersWith(Solver, ty2) \cup {ty1, ty2}
                IN  /\ post.panic = "none"
                    /\ post.constraints = constraints
                    /\ DOMAIN post.set_map = DOMAIN set_map \cup {ty1, ty2}
                    /\ post.set_map[ty1] = post.set_map[ty2]
                    /\ \A ty \in DOMAIN post.set_map :
                           ClassOf(post, ty) = IF ty \in joined THEN joined ELSE ClassOf(Solver, ty)

\* paths that differ in their shells: a path of one segment, the same type
\* behind a module, and globally qualified ones
InModule(global, module, ident, args) ==
    Path(global, <<Segment(module, "None", <<>>), Segment(ident, "AngleBracketed", args)>>)

PathCases ==
    {Generic("Wrapper", <<T>>), Generic("Wrapper", <<U>>),
     Generic("Wrapper", <<Generic("Wrapper", <<T>>)>>),
     Generic("Wrapper", <<Tuple(<<T>>)>>),
     InModule(FALSE, "m", "Wrapper", <<U>>),
     InModule(TRUE, "std", "Wrapper", <<T>>),
     Path(TRUE, <<Segment("Wrapper", "AngleBracketed", <<PrimitiveStr>>)>>),
     Generic("Cow", <<LifetimeArg(1), T>>),
     InModule(TRUE, "std", "Cow", <<LifetimeArg(2), U>>),
     Generic("Result", <<T, U>>),
     InModule(FALSE, "m", "Result", <<U, Simple("String")>>)}

\* two paths whose final segments have the same number of generic arguments
EqualArity(path1, path2) ==
    /\ LastSegment(path1).ak = "AngleBracketed"
    /\ LastSegment(path2).ak = "AngleBracketed"
    /\ ArgumentCount(path1) = ArgumentCount(path2)

\* the segments and the global flag of the two paths are the same
SameShell(path1, path2) == WithArguments(path1, <<>>) = WithArguments(path2, <<>>)

\* what makes a path the surviving shell
Preferred(path, other) == path.global \/ Len(path.path) < Len(other.path)

\* the cache with which the arguments at position i are paired: the one that
\* the pairs before i leave behind
RECURSIVE CacheBefore(_, _, _, _, _)
CacheBefore(args1, args2, i, env, cx) ==
    IF i = 1 THEN cx
    ELSE LET before == CacheBefore(args1, args2, i - 1, env, cx)
         IN  IF args1[i - 1].k = "Lifetime" THEN before
             ELSE make_most_concrete_from_pair(args1[i - 1], args2[i - 1], env, before, 1).cx

\* the argument at position i of the paired path
PairedArgument(args1, args2, i, env, cx) ==
    IF args1[i].k = "Lifetime" THEN args1[i]
    ELSE make_most_concrete_from_pair(args1[i], args2[i], env,
                                      CacheBefore(args1, args2, i, env, cx), 1).node

PairedAsClaimed(path1, path2, env, r) ==
    r.cx.panic = "none" =>
        /\ r.node.k = "Path"
        /\ \E pair \in {<<path1, path2>>, <<path2, path1>>} :
               /\ SameShell(r.node, pair[1])
               /\ (Preferred(path1, path2) \/ Preferred(path2, path1)) =>
                      Preferred(pair[1], pair[2])
        /\ Len(LastSegment(r.node).args) = ArgumentCount(path1)
        /\ \A i \in DOMAIN LastSegment(r.node).args :
               LastSegment(r.node).args[i] =
                   PairedArgument(LastSegment(path1).args, LastSegment(path2).args, i,
                                  env, EmptyCache)

ResolvedToStr(h, r) ==
    /\ r.cx.panic = "none"
    /\ r.node = PrimitiveStr
    /\ h \in DOMAIN r.cx.map
    /\ r.cx.map[h] = PrimitiveStr

\* C25 as stated: every set that has the string-literal type among its
\* members has it as the result of make_most_concrete, whatever the other
\* members are and in whatever order they are iterated.
C25_StrWins ==
    panic = "none" =>
        \A h \in DOMAIN sets : \A order \in IterationOrders :
            PrimitiveStr \in sets[h] =>
                ResolvedToStr(h, make_most_concrete(h, Env(order), EmptyCache, 1))

\* two solver states with the same equality classes and the same
\* constraints, whatever handles the classes have
SameClasses(s1, s2) ==
    /\ s1.constraints = s2.constraints
    /\ DOMAIN s1.set_map = DOMAIN s2.set_map
    /\ \A ty \in DOMAIN s1.set_map : ClassOf(s1, ty) = ClassOf(s2, ty)

\* the two calls made in one order and in the other
InEitherOrder(s12, s21) ==
    (s12.panic = "none" /\ s21.panic = "none") => SameClasses(s12, s21)

\* C27: the partition does not depend on the order of the calls.  Two
\* insert_as_equal_to calls that follow the calls made so far leave, made
\* in either order and neither order aborting, the same classes and the same
\* constraints, up to the numbering of the handles.
C27_OrderIndependent ==
    (Unifying /\ calls + 2 <= MaxCalls) =>
        \A a, b, c, d \in family :
            InEitherOrder(
                insert_as_equal_to(insert_as_equal_to(Solver, a, b), c, d),
                insert_as_equal_to(insert_as_equal_to(Solver, c, d), a, b))

\* two composite types whose components correspond: tuples of one length,
\* references of one mutability, paths with the same number of arguments
Decomposable(ty1, ty2) ==
    \/ ty1.k = "Tuple" /\ ty2.k = "Tuple" /\ Len(ty1.args) = Len(ty2.args)
    \/ ty1.k = "Reference" /\ ty2.k = "Reference"
    \/ ty1.k = "ReferenceMut" /\ ty2.k = "ReferenceMut"
    \/ /\ ty1.k = "Path" /\ ty2.k = "Path"
       /\ LastSegment(ty1).ak = "AngleBracketed" /\ LastSegment(ty2).ak = "AngleBracketed"
       /\ ArgumentCount(ty1) = ArgumentCount(ty2)

\* the components of a composite type, in their order
ComponentsInOrder(ty) == IF ty.k = "Path" THEN LastSegment(ty).args ELSE ty.args

\* two types are members of a common set
InCommonSet(ty1, ty2) == \E h \in DOMAIN sets : ty1 \in sets[h] /\ ty2 \in sets[h]

\* C28: the equality sets are closed under decomposition.  Whenever two
\* tuples of one arity, two references of one mutability or two paths with
\* the same number of arguments are members of one set, their components at
\* each position are members of a common set, however the two came to be
\* in one set.
C28_ClosedUnderDecomposition ==
    panic = "none" =>
        \A h \in DOMAIN sets : \A ty1, ty2 \in sets[h] :
            (ty1 # ty2 /\ Decomposable(ty1, ty2)) =>
                \A i \in DOMAIN ComponentsInOrder(ty1) :
                    \/ ComponentsInOrder(ty1)[i].k = "Lifetime"
                    \/ ComponentsInOrder(ty2)[i].k = "Lifetime"
                    \/ InCommonSet(ComponentsInOrder(ty1)[i], ComponentsInOrder(ty2)[i])

\* C29: no equality set has both a reference and a mutable reference among
\* its members, so that make_most_concrete never pairs the two.
C29_NoReferenceWithMutable ==
    panic = "none" =>
        \A h \in DOMAIN sets :
            ~ \E ty1, ty2 \in sets[h] : ty1.k = "Reference" /\ ty2.k = "ReferenceMut"

\* the value for the handle h with the cache that resolving the handle
\* `earlier` has left, against the value with an empty cache
SameWithEitherCache(earlier, h, env, r0) ==
    (r0.cx.panic = "none"
        /\ make_most_concrete(h, env, r0.cx, 1).cx.panic = "none"
        /\ make_most_concrete(h, env, EmptyCache, 1).cx.panic = "none") =>
            make_most_concrete(h, env, r0.cx, 1).node
                = make_most_concrete(h, env, EmptyCache, 1).node

\* C30: the most concrete type of a set does not depend on the sets that
\* were resolved before it with the same cache.  For every handle the value
\* make_most_concrete returns after another handle has been resolved is
\* the value it returns with an empty cache, the members of every set being
\* iterated in the same order in both, also when the sets refer to each
\* other.
C30_CacheIndependent ==
    panic = "none" =>
        \A order \in IterationOrders : \A earlier, h \in DOMAIN sets :
            SameWithEitherCache(earlier, h, Env(order),
                                make_most_concrete(earlier, Env(order), EmptyCache, 1))

\* the iteration orders of the first h sets of a list of sets
RECURSIVE OrdersOver(_, _)
OrdersOver(list, h) ==
    IF h = 0 THEN {<<>>}
    ELSE {Append(o, s) : o \in OrdersOver(list, h - 1), s \in Orders(list[h])}

\* the outcomes of the pass over a function body that has the invocation
\* once: what is returned, and the panic if the pass aborts
RecordedOnce(invoke) ==
    LET once == invoke_compute_trait_bounds(
                    [EmptySolver EXCEPT !.constraints = generic_constraints], invoke)
    IN  {[returned |-> end.returned, panic |-> end.panic] :
            end \in {Finish(generic_params, once, order, constraint_order) :
                        order \in OrdersOver(once.sets, Len(once.sets)),
                        constraint_order \in Orders(once.constraints)}}

\* C31: recording an invocation twice changes nothing.  A pass over a
\* function body that has the same invocation twice returns a constraint
\* set that the pass over the body with the invocation once returns as
\* well, and aborts only if that pass aborts.
C31_SecondRecordingIdle ==
    (phase = "returned" /\ Len(log) = 2 /\ log[1] = log[2]) =>
        [returned |-> returned, panic |-> panic] \in RecordedOnce(log[1])

\* C32: insert_as_equal_to on two tuples of different arity aborts, and
\* leaves the sets, the map and the constraints as they were: no component
\* of the two is unified and the two tuples are not recorded as equal.
C32_TupleArityFatal ==
    Unifying =>
        \A ty1, ty2 \in family :
            (ty1.k = "Tuple" /\ ty2.k = "Tuple" /\ Len(ty1.args) # Len(ty2.args)) =>
                LET post == insert_as_equal_to(Solver, ty1, ty2)
                IN  /\ post.panic = "tuples have different number of arguments"
                    /\ post.set_map = set_map
                    /\ post.sets = sets
                    /\ post.constraints = constraints

\* a pass that has observed T has aborted on the tuples (T) and (T, U):
\* neither of the two has been observed, nor has U
C32_Witness ==
    /\ panic = "tuples have different number of arguments"
    /\ last.op = "insert_as_equal_to"
    /\ calls = 2
    /\ T \in DOMAIN set_map
    /\ {Tuple(<<T>>), Tuple(<<T, U>>)} \subseteq family
    /\ Unobserved(Solver, Tuple(<<T>>))
    /\ Unobserved(Solver, Tuple(<<T, U>>))
    /\ Unobserved(Solver, U)

====
